---------------------------- MODULE Spec2Model ----------------------------
(***************************************************************************)
(* A model of the storage core of f2ufs: the volume storage layer          *)
(* (Storage over a Storable depot), the dual-arm Armor, the transaction    *)
(* manager, the file depot (its index, its super block and WAL files, its  *)
(* sectors), the RepoOpener / Repo / OpenOptions front door, fnodes with   *)
(* the content store, the directory tree with rename, the helpers of util  *)
(* (alignment, the little-endian codec, init_env), positioned I/O, and the *)
(* walk of remove_address_blocks over the frame cache.                     *)
(*                                                                         *)
(* Each subsystem has its own specification (SpecStorage, SpecArmor,       *)
(* SpecLoad, SpecTrans, SpecRepo, SpecOpener, SpecOptions, SpecIndex,      *)
(* SpecFile, SpecSector, SpecFnode, SpecTree, SpecAlign, SpecLe, SpecPio,  *)
(* SpecEnv, SpecFrames): its Init fixes the variables of the other         *)
(* subsystems and its actions leave them unchanged. SpecLimit runs         *)
(* RepoOpener and OpenOptions.open side by side, SpecDepot the three parts *)
(* of the file depot with a crash.                                         *)
(***************************************************************************)
EXTENDS Integers, Sequences, FiniteSets, TLC

VARIABLES
    \* ---- Storage (src/src/volume/storage/storage.rs) ----
    depot_addr,     \* depot: Eid -> address held by the depot (<<>>: none)
    depot_blks,     \* depot: the set of block ids present in the depot
    addr_cache,     \* Storage.addr_cache: Eid -> cached address (<<>>: none)
    watermark,      \* Allocator: next free block id
    st_pc,          \* position inside write_new_address / del
    st_id,          \* the id argument of the running call
    st_new,         \* the addr argument of write_new_address
    st_old,         \* the address whose blocks remove_address_blocks walks
    st_idx,         \* remove_address_blocks: index of the next span
    st_ret,         \* result of the last finished call
    \* ---- Armor (src/src/volume/armor.rs, storage/file/index.rs) ----
    arm_store,      \* depot: Arm -> the copy stored under H(id || arm)
    item,           \* the in-memory armored item {seq, arm, payload}
    ar_pc,          \* position inside save / load ("down": nothing in memory)
    ar_pending,     \* save: the record being written
    ar_ret,         \* result of the last finished save or load
    ar_prev,        \* the payload last saved or loaded successfully (0: none)
    ar_new,         \* the payload of the latest save attempt
    \* ---- Transaction manager (spec 4.5; src/src/trans/mod.rs) ----
    tx_phase,       \* idle, active, marked, flushed, swapping, published,
                    \* advanced; "down" after a crash
    tx_id,          \* the txid last assigned
    tx_staged,      \* entity -> the value the running transaction staged (0: none)
    tx_swapped,     \* entities already swapped during publication
    tx_lock,        \* the write lock readers take in shared mode
    tx_pre,         \* the published map when the transaction began
    published,      \* the in-memory map readers see: entity -> value
    reader_seen,    \* the snapshot the last reader took
    wal,            \* durable: the WAL entry of the unresolved transaction
    sb,             \* durable: the super-block's root {root txid, map}
    pay_buf,        \* staged payloads put to the depot, still buffered
    pay_dur,        \* staged payloads that are durable in the depot
    hist,           \* the states after each committed transaction, in order
    \* ---- Repo (src/src/repo.rs) ----
    repo_fs,        \* Repo.fs: "open" (Some(fs)) or "closed" (None)
    fs_ro,          \* Fs.is_read_only()
    fs_node,        \* the fnode at path "/a": [kind, len]
    fs_close_res,   \* what Fs.close returned: "none" until it is called
    last,           \* the last entry-point call: its arguments and outcome
    fs_opts,        \* Fs.get_opts(): the repository's default file options
    fnode_opts,     \* the options of the file at path "/a"
    \* ---- RepoOpener (src/src/repo.rs) ----
    opener,         \* the RepoOpener being configured
    repos,          \* the URIs at which a repository exists
    opened,         \* the last RepoOpener::open call and its outcome
    \* ---- OpenOptions (src/src/repo.rs) ----
    oo,             \* the OpenOptions being configured
    oo_calls,       \* the setter calls made on it since OpenOptions::new()
    \* ---- Depot index (src/src/volume/storage/file/file.rs) ----
    idx_buf,        \* Eid -> the buffered update of its address, if any
    idx_disk,       \* Eid -> the address persisted for it (0: none)
    idx_last,       \* the last depot call and its result
    \* ---- FileStorage (src/src/volume/storage/file/file.rs) ----
    fst_base,       \* the depot's location: "none", "dir" (there but never
                    \* initialized), "init", "unreadable"
    fst_wal,        \* Eid -> the content of its WAL file (NoFile: none)
    fst_sb,         \* suffix -> the content of that super block file
    fst_last,       \* the last FileStorage call and its result
    \* ---- SectorMgr behind FileStorage (spec 4.1, file.rs tests::block_oper) ----
    sec_blk,        \* block id -> its content, NewBlk (never written) or DelBlk
    sec_size,       \* sector -> blocks its file holds (NoFile: no file)
    sec_last,       \* the last block call and its result
    \* ---- Fnodes and the content store (spec 3, 4.6, 4.7) ----
    fn_tab,         \* fnode id -> NoFnode or its {limit, versions, curr_len}
    ch_map,         \* content hash -> NoChunk or its {refcnt, span}
    fn_last,        \* the last fnode operation and what it pushed and evicted
    \* ---- Directory tree and rename (spec 4.7; src/src/repo.rs:819-829) ----
    tr_mem,         \* the tree in memory: {kind, ent, content, refs}
    tr_disk,        \* the tree as last committed
    tr_pc,          \* position inside rename: idle, begun, unlinked, linked,
                    \* committed
    tr_op,          \* the last rename: its arguments, the tree before it, its result
    \* ---- Alignment helpers (src/src/util/mod.rs) ----
    al_x,           \* the integer to align
    al_size,        \* the alignment, a power of two
    al_call,        \* the function applied last, the build, and what it returned
    \* ---- Little-endian codec (src/src/util/little_endian.rs) ----
    le_type,        \* the integer type T of write::<T> and read::<T>
    le_n,           \* the integer written
    le_buf,         \* the buffer, a sequence of bytes
    le_call,        \* the last call, the buffer before it, and what it returned
    \* ---- Positioned I/O loops (src/src/parallel_io.rs) ----
    pio,            \* the running or last call: arguments, offset, bytes done, result
    pio_log,        \* the transfers the underlying calls made: <<offset, bytes>>...
    \* ---- init_env and its Once (src/src/util/mod.rs) ----
    once,           \* the state of INIT: new, running, done, poisoned
    ie_pc,          \* thread -> where it is: out, body, waiting, returned, panicked
    ie_calls,       \* thread -> the init_env calls it has made
    ie_runs,        \* how often the initialisation body was started
    \* ---- Storage::remove_address_blocks and the frame cache ----
    rab,            \* the call of remove_address_blocks: its address, loop variables and result
    rab_blks,       \* the block ids the depot holds
    frame_cache     \* the keys of frame_cache: the begin block ids of the cached frames

storageVars == <<depot_addr, depot_blks, addr_cache, watermark,
                 st_pc, st_id, st_new, st_old, st_idx, st_ret>>

armorVars == <<arm_store, item, ar_pc, ar_pending, ar_ret, ar_prev, ar_new>>

transVars == <<tx_phase, tx_id, tx_staged, tx_swapped, tx_lock, tx_pre, published,
               reader_seen, wal, sb, pay_buf, pay_dur, hist>>

repoVars == <<repo_fs, fs_ro, fs_node, fs_close_res, last, fs_opts, fnode_opts>>

openerVars == <<opener, repos, opened>>

optionsVars == <<oo, oo_calls>>

indexVars == <<idx_buf, idx_disk, idx_last>>

fileVars == <<fst_base, fst_wal, fst_sb, fst_last>>

sectorVars == <<sec_blk, sec_size, sec_last>>

fnodeVars == <<fn_tab, ch_map, fn_last>>

treeVars == <<tr_mem, tr_disk, tr_pc, tr_op>>

alignVars == <<al_x, al_size, al_call>>

leVars == <<le_type, le_n, le_buf, le_call>>

pioVars == <<pio, pio_log>>

envVars == <<once, ie_pc, ie_calls, ie_runs>>

framesVars == <<rab, rab_blks, frame_cache>>

vars == <<storageVars, armorVars, transVars, repoVars, openerVars, optionsVars,
          indexVars, fileVars, sectorVars, fnodeVars, treeVars, alignVars,
          leVars, pioVars, envVars, framesVars>>

notStorage == <<armorVars, transVars, repoVars, openerVars, optionsVars,
                indexVars, fileVars, sectorVars, fnodeVars, treeVars,
                alignVars, leVars, pioVars, envVars, framesVars>>
notArmor == <<storageVars, transVars, repoVars, openerVars, optionsVars,
              indexVars, fileVars, sectorVars, fnodeVars, treeVars, alignVars,
              leVars, pioVars, envVars, framesVars>>
notTrans == <<storageVars, armorVars, repoVars, openerVars, optionsVars,
              indexVars, fileVars, sectorVars, fnodeVars, treeVars, alignVars,
              leVars, pioVars, envVars, framesVars>>
notRepo == <<storageVars, armorVars, transVars, openerVars, optionsVars,
             indexVars, fileVars, sectorVars, fnodeVars, treeVars, alignVars,
             leVars, pioVars, envVars, framesVars>>
notOpener == <<storageVars, armorVars, transVars, repoVars, optionsVars,
               indexVars, fileVars, sectorVars, fnodeVars, treeVars, alignVars,
               leVars, pioVars, envVars, framesVars>>
notOptions == <<storageVars, armorVars, transVars, repoVars, openerVars,
                indexVars, fileVars, sectorVars, fnodeVars, treeVars,
                alignVars, leVars, pioVars, envVars, framesVars>>
notIndex == <<storageVars, armorVars, transVars, repoVars, openerVars,
              optionsVars, fileVars, sectorVars, fnodeVars, treeVars,
              alignVars, leVars, pioVars, envVars, framesVars>>
notFile == <<storageVars, armorVars, transVars, repoVars, openerVars,
             optionsVars, indexVars, sectorVars, fnodeVars, treeVars,
             alignVars, leVars, pioVars, envVars, framesVars>>
notSector == <<storageVars, armorVars, transVars, repoVars, openerVars,
               optionsVars, indexVars, fileVars, fnodeVars, treeVars,
               alignVars, leVars, pioVars, envVars, framesVars>>
notFnode == <<storageVars, armorVars, transVars, repoVars, openerVars,
              optionsVars, indexVars, fileVars, sectorVars, treeVars,
              alignVars, leVars, pioVars, envVars, framesVars>>
notTree == <<storageVars, armorVars, transVars, repoVars, openerVars,
             optionsVars, indexVars, fileVars, sectorVars, fnodeVars,
             alignVars, leVars, pioVars, envVars, framesVars>>
notAlign == <<storageVars, armorVars, transVars, repoVars, openerVars,
              optionsVars, indexVars, fileVars, sectorVars, fnodeVars,
              treeVars, leVars, pioVars, envVars, framesVars>>
notLe == <<storageVars, armorVars, transVars, repoVars, openerVars,
           optionsVars, indexVars, fileVars, sectorVars, fnodeVars, treeVars,
           alignVars, pioVars, envVars, framesVars>>
notPio == <<storageVars, armorVars, transVars, repoVars, openerVars,
            optionsVars, indexVars, fileVars, sectorVars, fnodeVars, treeVars,
            alignVars, leVars, envVars, framesVars>>
notEnv == <<storageVars, armorVars, transVars, repoVars, openerVars,
            optionsVars, indexVars, fileVars, sectorVars, fnodeVars, treeVars,
            alignVars, leVars, pioVars, framesVars>>
notFrames == <<storageVars, armorVars, transVars, repoVars, openerVars,
               optionsVars, indexVars, fileVars, sectorVars, fnodeVars,
               treeVars, alignVars, leVars, pioVars, envVars>>

-----------------------------------------------------------------------------
(* Bounds of the model *)

\* blocks the allocator may hand out in one behaviour
MaxBlocks == 4
\* blocks per span
MaxSpanCnt == 2
\* spans per address
MaxSpans == 2

\* highest sequence number an armored item reaches
MaxSeq == 4
\* distinct payloads of an armored item
MaxVal == 3

\* transactions begun in one behaviour
MaxTx == 3

\* the longest file, and the greatest version limit given to OpenOptions
MaxLen == 1
MaxVersionLimit == 1

\* setter calls made on one OpenOptions
MaxCalls == 3

\* distinct addresses put to the depot
MaxAddr == 2

\* distinct contents written to a WAL file or a super block file
MaxWal == 2

\* blocks a sector file holds (4096 in the file depot), sectors, and distinct
\* block contents
SectorBlks == 2
MaxSectors == 2
MaxBlkVal == 2

\* distinct chunks (content hashes), chunks one version holds, and the
\* greatest version limit an fnode is created with
MaxHash == 2
MaxChunks == 2
MaxFnLimit == 2

\* nodes of the directory tree (the root is one), and distinct file contents
MaxNodes == 4
MaxContent == 2

\* bits of usize, isize, u64 and i64 in the alignment helpers (64 in the
\* program)
AlignBits == 5

\* bits of a byte in the little-endian codec (8 in the program)
ByteBits == 1

\* the longest buffer given to pread_exact and pwrite_all, the greatest
\* offset, and the Interrupted failures within one call
MaxBuf == 3
MaxOff == 1
MaxIntr == 2

\* init_env calls one thread makes
MaxInitCalls == 2

\* the block ids, and the longest span, of the addresses given to
\* remove_address_blocks; the blocks of a frame (16 in the program)
MaxFrameBlks == 4
MaxWalkCnt == 3
BLKS_PER_FRAME == 2

\* fs::DEFAULT_VERSION_LIMIT, and the greatest u8
DEFAULT_VERSION_LIMIT == 10
U8Max == 255

Eids == {"e1", "e2"}

-----------------------------------------------------------------------------
(* Addresses and spans (volume::address; used by storage.rs:162-184) *)

NoAddr == <<>>

SpanBlocks(sp) == sp.begin .. (sp.begin + sp.cnt - 1)

RECURSIVE AddrBlocks(_)
AddrBlocks(a) ==
    IF a = <<>> THEN {} ELSE SpanBlocks(Head(a)) \cup AddrBlocks(Tail(a))

RECURSIVE SumSeq(_)
SumSeq(s) == IF s = <<>> THEN 0 ELSE Head(s) + SumSeq(Tail(s))

\* the counts of the spans of a new address
SpanCounts == UNION {[1..n -> 1..MaxSpanCnt] : n \in 1..MaxSpans}

\* Allocator.allocate called once per span: Span{watermark, n}, then advance
AllocAddr(wm, cnts) ==
    [i \in 1..Len(cnts) |->
        [begin |-> wm + SumSeq(SubSeq(cnts, 1, i - 1)), cnt |-> cnts[i]]]

-----------------------------------------------------------------------------
(* Storage over the depot *)

StorageStart ==
    /\ depot_addr = [e \in Eids |-> NoAddr]
    /\ depot_blks = {}
    /\ addr_cache = [e \in Eids |-> NoAddr]
    /\ watermark = 0
    /\ st_pc = "idle"
    /\ st_id = "e1"
    /\ st_new = NoAddr
    /\ st_old = NoAddr
    /\ st_idx = 1
    /\ st_ret = "none"

\* The Writer stages an entity: it allocates the spans of the new address,
\* put_blocks them, and calls write_new_address(id, addr).
WriterFinish(id, cnts) ==
    /\ st_pc = "idle"
    /\ watermark + SumSeq(cnts) <= MaxBlocks
    /\ LET addr == AllocAddr(watermark, cnts) IN
        /\ st_new' = addr
        /\ depot_blks' = depot_blks \cup AddrBlocks(addr)
    /\ watermark' = watermark + SumSeq(cnts)
    /\ st_id' = id
    /\ st_pc' = "wna_get"
    /\ st_ret' = "none"
    /\ UNCHANGED <<depot_addr, addr_cache, st_old, st_idx>>
    /\ UNCHANGED notStorage

\* Storage::del(id) is called
DelCall(id) ==
    /\ st_pc = "idle"
    /\ st_id' = id
    /\ st_pc' = "del_get"
    /\ st_ret' = "none"
    /\ UNCHANGED <<depot_addr, depot_blks, addr_cache, watermark,
                   st_new, st_old, st_idx>>
    /\ UNCHANGED notStorage

\* where the caller continues after get_address returned Ok(addr)
AfterGetOk == IF st_pc = "wna_get" THEN "wna_remove" ELSE "del_remove"

\* Storage::get_address, as called first by write_new_address and by del
GetAddress ==
    /\ st_pc \in {"wna_get", "del_get"}
    /\ \/ \* hit in the address cache
          /\ addr_cache[st_id] # NoAddr
          /\ st_old' = addr_cache[st_id]
          /\ st_idx' = 1
          /\ st_pc' = AfterGetOk
          /\ UNCHANGED <<addr_cache, st_ret>>
       \/ \* miss, the depot holds the address: insert it into the cache
          /\ addr_cache[st_id] = NoAddr
          /\ depot_addr[st_id] # NoAddr
          /\ st_old' = depot_addr[st_id]
          /\ st_idx' = 1
          /\ addr_cache' = [addr_cache EXCEPT ![st_id] = depot_addr[st_id]]
          /\ st_pc' = AfterGetOk
          /\ UNCHANGED st_ret
       \/ \* miss, the depot answers NotFound
          /\ addr_cache[st_id] = NoAddr
          /\ depot_addr[st_id] = NoAddr
          /\ IF st_pc = "wna_get"
                THEN st_pc' = "wna_put" /\ UNCHANGED st_ret
                ELSE st_pc' = "idle" /\ st_ret' = "Ok"
          /\ UNCHANGED <<addr_cache, st_old, st_idx>>
       \/ \* miss, the depot (or decrypt, deserialize) fails with another error
          /\ addr_cache[st_id] = NoAddr
          /\ st_pc' = "idle"
          /\ st_ret' = "Err"
          /\ UNCHANGED <<addr_cache, st_old, st_idx>>
    /\ UNCHANGED <<depot_addr, depot_blks, watermark, st_id, st_new>>
    /\ UNCHANGED notStorage

\* where the caller continues after remove_address_blocks returned Ok
AfterRemoveOk == IF st_pc = "wna_remove" THEN "wna_put" ELSE "del_addr"

\* Storage::remove_address_blocks: one iteration of the loop over the spans
RemoveAddressBlocks ==
    /\ st_pc \in {"wna_remove", "del_remove"}
    /\ IF st_idx > Len(st_old)
          THEN /\ st_pc' = AfterRemoveOk
               /\ UNCHANGED <<depot_blks, st_idx, st_ret>>
          ELSE \/ \* depot.del_blocks(span) succeeds
                  /\ depot_blks' = depot_blks \ SpanBlocks(st_old[st_idx])
                  /\ st_idx' = st_idx + 1
                  /\ UNCHANGED <<st_pc, st_ret>>
               \/ \* depot.del_blocks(span) fails: `?` returns the error
                  /\ st_pc' = "idle"
                  /\ st_ret' = "Err"
                  /\ UNCHANGED <<depot_blks, st_idx>>
    /\ UNCHANGED <<depot_addr, addr_cache, watermark, st_id, st_new, st_old>>
    /\ UNCHANGED notStorage

\* Storage::put_address, the last call of write_new_address
PutAddress ==
    /\ st_pc = "wna_put"
    /\ \/ \* depot.put_address succeeds, then the cache is updated
          /\ depot_addr' = [depot_addr EXCEPT ![st_id] = st_new]
          /\ addr_cache' = [addr_cache EXCEPT ![st_id] = st_new]
          /\ st_ret' = "Ok"
       \/ \* depot.put_address (or serialize, encrypt) fails
          /\ st_ret' = "Err"
          /\ UNCHANGED <<depot_addr, addr_cache>>
    /\ st_pc' = "idle"
    /\ UNCHANGED <<depot_blks, watermark, st_id, st_new, st_old, st_idx>>
    /\ UNCHANGED notStorage

\* a del that leaves the address cache as it is
DelAddressKeepsCache ==
    /\ st_pc = "del_addr"
    /\ \/ /\ depot_addr' = [depot_addr EXCEPT ![st_id] = NoAddr]
          /\ st_ret' = "Ok"
       \/ /\ st_ret' = "Err"
          /\ UNCHANGED depot_addr
    /\ st_pc' = "idle"
    /\ UNCHANGED <<depot_blks, addr_cache, watermark, st_id, st_new, st_old, st_idx>>
    /\ UNCHANGED notStorage

\* Storage::del: depot.del_address and addr_cache.remove
DelAddress ==
    /\ st_pc = "del_addr"
    /\ \/ /\ depot_addr' = [depot_addr EXCEPT ![st_id] = NoAddr]
          /\ addr_cache' = [addr_cache EXCEPT ![st_id] = NoAddr]
          /\ st_ret' = "Ok"
       \/ /\ st_ret' = "Err"
          /\ UNCHANGED <<depot_addr, addr_cache>>
    /\ st_pc' = "idle"
    /\ UNCHANGED <<depot_blks, watermark, st_id, st_new, st_old, st_idx>>
    /\ UNCHANGED notStorage

\* The process dies: the Storage object and its caches are lost, what the
\* depot holds stays (the depot is taken to be write-through here).
StorageCrash ==
    /\ st_pc # "idle"
    /\ addr_cache' = [e \in Eids |-> NoAddr]
    /\ st_pc' = "idle"
    /\ st_ret' = "crash"
    /\ UNCHANGED <<depot_addr, depot_blks, watermark, st_id, st_new, st_old, st_idx>>
    /\ UNCHANGED notStorage

StorageNext ==
    \/ \E id \in Eids, cnts \in SpanCounts : WriterFinish(id, cnts)
    \/ \E id \in Eids : DelCall(id)
    \/ GetAddress
    \/ RemoveAddressBlocks
    \/ PutAddress
    \/ DelAddress
    \/ StorageCrash


\* the calls alone: every behaviour in which the process never dies
StorageCalls ==
    \/ \E id \in Eids, cnts \in SpanCounts : WriterFinish(id, cnts)
    \/ \E id \in Eids : DelCall(id)
    \/ GetAddress
    \/ RemoveAddressBlocks
    \/ PutAddress
    \/ DelAddress


-----------------------------------------------------------------------------
(* Armor: an item {id, seq, arm, payload} kept in two copies, one per arm *)

Arms == {"Left", "Right"}

\* impl Default for Arm
ArmDefault == "Left"

\* a save that wrote over the current arm would come from this
ArmOtherSame(a) == a

\* Arm::other
ArmOther(a) == IF a = "Left" THEN "Right" ELSE "Left"

\* Arm::toggle, on the arm of an item
ArmToggle(it) == [it EXCEPT !.arm = ArmOther(@)]

\* Index::new: seq 0, the default arm, an empty map
IndexNew == [seq |-> 0, arm |-> ArmDefault, val |-> 0]

\* Seq::inc_seq
IncSeq(it) == [it EXCEPT !.seq = @ + 1]

\* what the depot holds under one arm: nothing, bytes that fail the MAC, or
\* a record
MissingCopy == [st |-> "missing", seq |-> 0, arm |-> ArmDefault, val |-> 0]
BadCopy == [st |-> "bad", seq |-> 0, arm |-> ArmDefault, val |-> 0]
OkCopy(it) == [st |-> "ok", seq |-> it.seq, arm |-> it.arm, val |-> it.val]
CopyItem(c) == [seq |-> c.seq, arm |-> c.arm, val |-> c.val]

\* a load that lets Right win a tie
LoadItemTieRight(store) ==
    LET l == store["Left"]
        r == store["Right"]
    IN  IF l.st = "ok" /\ r.st = "ok"
           THEN [ok |-> TRUE, item |-> CopyItem(IF r.seq >= l.seq THEN r ELSE l)]
        ELSE IF l.st = "ok" THEN [ok |-> TRUE, item |-> CopyItem(l)]
        ELSE IF r.st = "ok" THEN [ok |-> TRUE, item |-> CopyItem(r)]
        ELSE [ok |-> FALSE, item |-> IndexNew]

\* Armor load: both arms are fetched, the greater valid sequence wins, a tie
\* goes to Left, one unreadable arm leaves the other, two fail as Corrupted
LoadItem(store) ==
    LET l == store["Left"]
        r == store["Right"]
    IN  IF l.st = "ok" /\ r.st = "ok"
           THEN [ok |-> TRUE, item |-> CopyItem(IF r.seq > l.seq THEN r ELSE l)]
        ELSE IF l.st = "ok" THEN [ok |-> TRUE, item |-> CopyItem(l)]
        ELSE IF r.st = "ok" THEN [ok |-> TRUE, item |-> CopyItem(r)]
        ELSE [ok |-> FALSE, item |-> IndexNew]

ArmorStart ==
    /\ arm_store = [a \in Arms |-> MissingCopy]
    /\ item = IndexNew
    /\ ar_pc = "idle"
    /\ ar_pending = IndexNew
    /\ ar_ret = "none"
    /\ ar_prev = 0
    /\ ar_new = 0

\* save, steps 1-3: the next sequence, the target arm, the record to write
SaveBegin(v) ==
    /\ ar_pc = "idle"
    /\ item.seq < MaxSeq
    /\ ar_pending' = [ArmToggle(IncSeq(item)) EXCEPT !.val = v]
    /\ ar_new' = v
    /\ ar_pc' = "write"
    /\ ar_ret' = "none"
    /\ UNCHANGED <<arm_store, item, ar_prev>>
    /\ UNCHANGED notArmor

\* save, step 4: the depot write under H(id || target arm)
SaveWrite ==
    /\ ar_pc = "write"
    /\ \/ \* written
          /\ arm_store' = [arm_store EXCEPT ![ar_pending.arm] = OkCopy(ar_pending)]
          /\ ar_pc' = "written"
          /\ UNCHANGED ar_ret
       \/ \* the write fails and leaves the arm as it was
          /\ ar_pc' = "idle"
          /\ ar_ret' = "Err"
          /\ UNCHANGED arm_store
       \/ \* the write fails half way: the arm no longer passes its MAC
          /\ arm_store' = [arm_store EXCEPT ![ar_pending.arm] = BadCopy]
          /\ ar_pc' = "idle"
          /\ ar_ret' = "Err"
    /\ UNCHANGED <<item, ar_pending, ar_prev, ar_new>>
    /\ UNCHANGED notArmor

\* save, step 5: the in-memory item takes the new sequence and arm
SaveFinish ==
    /\ ar_pc = "written"
    /\ item' = ar_pending
    /\ ar_prev' = ar_pending.val
    /\ ar_pc' = "idle"
    /\ ar_ret' = "Ok"
    /\ UNCHANGED <<arm_store, ar_pending, ar_new>>
    /\ UNCHANGED notArmor

\* The process dies. A write in flight leaves its arm untouched, torn or
\* complete; the other arm is never touched. Nothing stays in memory.
ArmorCrash ==
    /\ ar_pc \in {"idle", "write", "written"}
    /\ \/ UNCHANGED arm_store
       \/ /\ ar_pc = "write"
          /\ \E c \in {BadCopy, OkCopy(ar_pending)} :
                arm_store' = [arm_store EXCEPT ![ar_pending.arm] = c]
    /\ item' = IndexNew
    /\ ar_pc' = "down"
    /\ ar_ret' = "crash"
    /\ UNCHANGED <<ar_pending, ar_prev, ar_new>>
    /\ UNCHANGED notArmor

\* load after a restart
ArmorLoad ==
    /\ ar_pc = "down"
    /\ LET res == LoadItem(arm_store) IN
        IF res.ok
           THEN /\ item' = res.item
                /\ ar_prev' = res.item.val
                /\ ar_pc' = "idle"
                /\ ar_ret' = "Loaded"
           ELSE /\ ar_ret' = "Corrupted"
                /\ UNCHANGED <<item, ar_prev, ar_pc>>
    /\ UNCHANGED <<arm_store, ar_pending, ar_new>>
    /\ UNCHANGED notArmor

ArmorNext ==
    \/ \E v \in 1..MaxVal : SaveBegin(v)
    \/ SaveWrite
    \/ SaveFinish
    \/ ArmorCrash
    \/ ArmorLoad

\* any two copies on disk, then one load
CopiesAt(a) ==
    {MissingCopy, BadCopy} \cup
        {[st |-> "ok", seq |-> n, arm |-> a, val |-> v] : n \in 0..MaxSeq, v \in 1..MaxVal}

LoadStart ==
    /\ arm_store \in {f \in [Arms -> CopiesAt("Left") \cup CopiesAt("Right")] :
                        \A a \in Arms : f[a] \in CopiesAt(a)}
    /\ item = IndexNew
    /\ ar_pc = "down"
    /\ ar_pending = IndexNew
    /\ ar_ret = "none"
    /\ ar_prev = 0
    /\ ar_new = 0

-----------------------------------------------------------------------------
(* Transaction manager: one writer transaction at a time, a WAL, the commit *)
(* steps, abort, and recovery at open                                       *)

\* the entities a transaction may write
Ents == {"x", "y"}

\* a value no transaction wrote: the entity's blocks are not in the depot
Lost == -1

NoneStaged == [e \in Ents |-> 0]

NoWal == [txid |-> 0, recs |-> NoneStaged, mark |-> "none"]

\* a map with the staged values put over it
Apply(map, staged) == [e \in Ents |-> IF staged[e] # 0 THEN staged[e] ELSE map[e]]

TransStart ==
    /\ tx_phase = "idle"
    /\ tx_id = 0
    /\ tx_staged = NoneStaged
    /\ tx_swapped = {}
    /\ tx_lock = FALSE
    /\ tx_pre = NoneStaged
    /\ published = NoneStaged
    /\ reader_seen = NoneStaged
    /\ wal = NoWal
    /\ sb = [root |-> 0, map |-> NoneStaged]
    /\ pay_buf = {}
    /\ pay_dur = {}
    /\ hist = <<NoneStaged>>

\* begin: assign the txid, attach an empty WAL
TxBegin ==
    /\ tx_phase = "idle"
    /\ tx_id < MaxTx
    /\ tx_id' = tx_id + 1
    /\ tx_phase' = "active"
    /\ tx_staged' = NoneStaged
    /\ tx_swapped' = {}
    /\ tx_pre' = published
    /\ wal' = [txid |-> tx_id + 1, recs |-> NoneStaged, mark |-> "open"]
    /\ pay_buf' = {}
    /\ pay_dur' = {}
    /\ UNCHANGED <<tx_lock, published, reader_seen, sb, hist>>
    /\ UNCHANGED notTrans

\* mutation: the payload is staged through Volume.put (buffered by the
\* depot) and the address pair recorded in the WAL (durable on return);
\* nothing is published
TxStage(e) ==
    /\ tx_phase = "active"
    /\ tx_staged[e] = 0
    /\ tx_staged' = [tx_staged EXCEPT ![e] = tx_id]
    /\ pay_buf' = pay_buf \cup {e}
    /\ wal' = [wal EXCEPT !.recs[e] = tx_id]
    /\ UNCHANGED <<tx_phase, tx_id, tx_swapped, tx_lock, tx_pre, published,
                   reader_seen, sb, pay_dur, hist>>
    /\ UNCHANGED notTrans

\* an abort that marks the WAL entry and releases nothing
TxAbortKeepsStaged ==
    /\ tx_phase = "active"
    /\ wal' = [wal EXCEPT !.mark = "aborted"]
    /\ tx_staged' = NoneStaged
    /\ tx_phase' = "idle"
    /\ UNCHANGED <<tx_id, tx_swapped, tx_lock, tx_pre, published, reader_seen, sb, hist,
                   pay_buf, pay_dur>>
    /\ UNCHANGED notTrans

\* abort: the staged blocks and addresses are released, the WAL entry is
\* marked Aborted, the memory state is unchanged
TxAbort ==
    /\ tx_phase = "active"
    /\ pay_buf' = {}
    /\ pay_dur' = {}
    /\ wal' = [wal EXCEPT !.mark = "aborted"]
    /\ tx_staged' = NoneStaged
    /\ tx_phase' = "idle"
    /\ UNCHANGED <<tx_id, tx_swapped, tx_lock, tx_pre, published, reader_seen, sb, hist>>
    /\ UNCHANGED notTrans

\* commit step 1: the Commit{txid} marker is appended to the WAL
CommitMarker ==
    /\ tx_phase = "active"
    /\ wal' = [wal EXCEPT !.mark = "commit"]
    /\ hist' = Append(hist, Apply(tx_pre, tx_staged))
    /\ tx_phase' = "marked"
    /\ UNCHANGED <<tx_id, tx_staged, tx_swapped, tx_lock, tx_pre, published,
                   reader_seen, sb, pay_buf, pay_dur>>
    /\ UNCHANGED notTrans

\* commit step 2: flush() the depot
CommitFlush ==
    /\ tx_phase = "marked"
    /\ pay_dur' = pay_dur \cup pay_buf
    /\ pay_buf' = {}
    /\ tx_phase' = "flushed"
    /\ UNCHANGED <<tx_id, tx_staged, tx_swapped, tx_lock, tx_pre, published,
                   reader_seen, wal, sb, hist>>
    /\ UNCHANGED notTrans

\* commit step 3: the in-memory maps are swapped from staged to published,
\* under the write lock
PublishLock ==
    /\ tx_phase = "flushed"
    /\ tx_lock' = TRUE
    /\ tx_phase' = "swapping"
    /\ UNCHANGED <<tx_id, tx_staged, tx_swapped, tx_pre, published, reader_seen,
                   wal, sb, pay_buf, pay_dur, hist>>
    /\ UNCHANGED notTrans

PublishSwap(e) ==
    /\ tx_phase = "swapping"
    /\ tx_staged[e] # 0
    /\ e \notin tx_swapped
    /\ published' = [published EXCEPT ![e] = tx_staged[e]]
    /\ tx_swapped' = tx_swapped \cup {e}
    /\ UNCHANGED <<tx_phase, tx_id, tx_staged, tx_lock, tx_pre, reader_seen,
                   wal, sb, pay_buf, pay_dur, hist>>
    /\ UNCHANGED notTrans

PublishUnlock ==
    /\ tx_phase = "swapping"
    /\ \A e \in Ents : tx_staged[e] # 0 => e \in tx_swapped
    /\ tx_lock' = FALSE
    /\ tx_phase' = "published"
    /\ UNCHANGED <<tx_id, tx_staged, tx_swapped, tx_pre, published, reader_seen,
                   wal, sb, pay_buf, pay_dur, hist>>
    /\ UNCHANGED notTrans

\* commit step 4: the super-block is updated (via Armor) to the new root
AdvanceSuperBlock ==
    /\ tx_phase = "published"
    /\ sb' = [root |-> tx_id, map |-> Apply(sb.map, tx_staged)]
    /\ tx_phase' = "advanced"
    /\ UNCHANGED <<tx_id, tx_staged, tx_swapped, tx_lock, tx_pre, published,
                   reader_seen, wal, pay_buf, pay_dur, hist>>
    /\ UNCHANGED notTrans

\* commit step 5: the WAL entries the new super-block covers are truncated
TruncateWal ==
    /\ tx_phase = "advanced"
    /\ wal' = NoWal
    /\ pay_dur' = {}
    /\ tx_staged' = NoneStaged
    /\ tx_swapped' = {}
    /\ tx_pre' = published
    /\ tx_phase' = "idle"
    /\ UNCHANGED <<tx_id, tx_lock, published, reader_seen, sb, pay_buf, hist>>
    /\ UNCHANGED notTrans

\* a reader takes the lock in shared mode and reads the published map
ReaderRead ==
    /\ tx_phase # "down"
    /\ ~tx_lock
    /\ reader_seen' = published
    /\ UNCHANGED <<tx_phase, tx_id, tx_staged, tx_swapped, tx_lock, tx_pre, published,
                   wal, sb, pay_buf, pay_dur, hist>>
    /\ UNCHANGED notTrans

\* The process dies. The WAL and the super-block are durable as written; of
\* the buffered payloads any part may have reached the disk; memory is lost.
TxCrash ==
    /\ tx_phase # "down"
    /\ \E kept \in SUBSET pay_buf : pay_dur' = pay_dur \cup kept
    /\ pay_buf' = {}
    /\ tx_phase' = "down"
    /\ tx_staged' = NoneStaged
    /\ tx_swapped' = {}
    /\ tx_lock' = FALSE
    /\ published' = NoneStaged
    /\ tx_pre' = NoneStaged
    /\ UNCHANGED <<tx_id, reader_seen, wal, sb, hist>>
    /\ UNCHANGED notTrans

\* the root recovery leaves: an unresolved entry with a Commit marker the
\* super-block has not advanced past is replayed (its addresses published,
\* the super-block advanced), any other entry is discarded
RecoverRoot(w, s, dur) ==
    IF w.mark = "commit" /\ w.txid > s.root
       THEN [root |-> w.txid,
             map |-> [e \in Ents |->
                        IF w.recs[e] = 0 THEN s.map[e]
                        ELSE IF e \in dur THEN w.recs[e] ELSE Lost]]
       ELSE s

\* open: crash recovery, then the published map is the root's
TxOpen ==
    /\ tx_phase = "down"
    /\ sb' = RecoverRoot(wal, sb, pay_dur)
    /\ published' = RecoverRoot(wal, sb, pay_dur).map
    /\ tx_pre' = RecoverRoot(wal, sb, pay_dur).map
    /\ wal' = NoWal
    /\ pay_dur' = {}
    /\ tx_phase' = "idle"
    /\ UNCHANGED <<tx_id, tx_staged, tx_swapped, tx_lock, reader_seen, pay_buf, hist>>
    /\ UNCHANGED notTrans

TransNext ==
    \/ TxBegin
    \/ \E e \in Ents : TxStage(e)
    \/ TxAbort
    \/ CommitMarker
    \/ CommitFlush
    \/ PublishLock
    \/ \E e \in Ents : PublishSwap(e)
    \/ PublishUnlock
    \/ AdvanceSuperBlock
    \/ TruncateWal
    \/ ReaderRead
    \/ TxCrash
    \/ TxOpen

-----------------------------------------------------------------------------
(* Repo: the public entry points over Option<Fs>, and OpenOptions.open      *)

\* version_limit: None
NoLimit == -1

\* every OpenOptions value the setters can build from OpenOptions::new():
\* a setter called with true raises the flags it implies, one called with
\* false lowers only its own flag, so every combination of flags is built
AllOptions ==
    [read : BOOLEAN, write : BOOLEAN, append : BOOLEAN, truncate : BOOLEAN,
     create : BOOLEAN, create_new : BOOLEAN,
     version_limit : {NoLimit} \cup (0..MaxVersionLimit),
     dedup_chunk : {"None", "Some(true)", "Some(false)"}]

OpenOptionsNew ==
    [read |-> TRUE, write |-> FALSE, append |-> FALSE, truncate |-> FALSE,
     create |-> FALSE, create_new |-> FALSE, version_limit |-> NoLimit,
     dedup_chunk |-> "None"]

\* OpenOptions with every kind of version limit: not set, 0, and values up
\* to the largest u8
LimitOptions ==
    {[OpenOptionsNew EXCEPT !.version_limit = v, !.create = c, !.write = c] :
        v \in {NoLimit, 0, 1, DEFAULT_VERSION_LIMIT, U8Max}, c \in BOOLEAN}

\* fs::Options::default()
DefaultOptions == [version_limit |-> DEFAULT_VERSION_LIMIT, dedup_chunk |-> TRUE]

\* a created file that takes the repository's options whatever was set
CreateOptsDefault(ropts, o) == ropts

\* the options create_fnode is given: fs.get_opts(), each overridden by the
\* OpenOptions value when that is Some
CreateOpts(ropts, o) ==
    [version_limit |-> IF o.version_limit # NoLimit THEN o.version_limit
                       ELSE ropts.version_limit,
     dedup_chunk |-> IF o.dedup_chunk # "None" THEN o.dedup_chunk = "Some(true)"
                     ELSE ropts.dedup_chunk]

\* File::new(handle, pos, read, write); NoHandle when no file is returned
NoHandle == [pos |-> -1, read |-> FALSE, write |-> FALSE]
FileNew(pos, o) == [pos |-> pos, read |-> o.read, write |-> o.write]

\* options for create_file that do not truncate
CreateFileOptionsNoTruncate ==
    [OpenOptionsNew EXCEPT !.create = TRUE, !.write = TRUE]

\* OpenOptions::new().create(true).truncate(true)
CreateFileOptions ==
    [OpenOptionsNew EXCEPT !.create = TRUE, !.truncate = TRUE, !.write = TRUE]

\* "/a" is the tracked fnode, "a" a path Fs.resolve rejects with an error
\* other than NotFound
Paths == {"/a", "a"}

NoNode == [kind |-> "none", len |-> 0]
DirNode == [kind |-> "dir", len |-> 0]
FileNode(n) == [kind |-> "file", len |-> n]
Nodes == {NoNode, DirNode} \cup {FileNode(n) : n \in 0..MaxLen}

\* Fs.resolve: the fnode at a path, NoNode for Err(NotFound), BadPath for
\* any other error
BadPath == [kind |-> "error", len |-> 0]
Resolve(p, node) == IF p = "/a" THEN node ELSE BadPath

\* the mutating options a read-only Fs refuses
IsMutatingNoAppend(o) == o.write \/ o.truncate \/ o.create \/ o.create_new

IsMutating(o) == o.write \/ o.append \/ o.truncate \/ o.create \/ o.create_new

\* what a call comes to: its result, the fnode at "/a" and its options
\* afterwards, whether the Fs was reached, whether a path was resolved, the
\* file handle returned
Outcome(res, node, access, resolved) ==
    [res |-> res, node |-> node, access |-> access, resolved |-> resolved,
     handle |-> NoHandle, nopts |-> fnode_opts]

Resolved(res, node, handle, nopts) ==
    [res |-> res, node |-> node, access |-> TRUE, resolved |-> TRUE,
     handle |-> handle, nopts |-> nopts]

\* an open that creates the missing file for any writer
WantsCreateOrWrite(o) == o.create \/ o.write

\* Err(NotFound) from resolve leads to create_fnode when create is set
WantsCreate(o) == o.create

\* an open that does not look at the kind of the fnode it opened
OpenFileAnyKind(ro, node, o, p, cf) ==
    LET r == Resolve(p, node)
        n1 == IF r.kind = "none" THEN FileNode(0) ELSE r
        o1 == IF r.kind = "none" THEN CreateOpts(fs_opts, o) ELSE fnode_opts
        h == FileNew(IF o.append THEN n1.len ELSE 0, o)
    IN  IF ro /\ IsMutating(o) THEN Outcome("ReadOnly", node, TRUE, FALSE)
        ELSE IF r.kind \in {"file", "dir"} /\ o.create_new
            THEN Resolved("AlreadyExists", node, NoHandle, fnode_opts)
        ELSE IF r.kind = "none" /\ ~WantsCreate(o)
            THEN Resolved("NotFound", node, NoHandle, fnode_opts)
        ELSE IF r.kind = "error"
            THEN Resolved("ResolveErr", node, NoHandle, fnode_opts)
        ELSE IF r.kind = "none" /\ cf # "Ok"
            THEN Resolved(cf, node, NoHandle, fnode_opts)
        ELSE IF o.truncate /\ n1.len > 0
            THEN Resolved("Ok", FileNode(0), h, o1)
        ELSE Resolved("Ok", n1, h, o1)

\* open_file_with_options on Some(fs); cf is what create_fnode returns when
\* it is called
OpenFileWithOptions(ro, node, o, p, cf) ==
    LET r == Resolve(p, node)
        n1 == IF r.kind = "none" THEN FileNode(0) ELSE r
        o1 == IF r.kind = "none" THEN CreateOpts(fs_opts, o) ELSE fnode_opts
        h == FileNew(IF o.append THEN n1.len ELSE 0, o)
    IN  IF ro /\ IsMutating(o) THEN Outcome("ReadOnly", node, TRUE, FALSE)
        ELSE IF r.kind \in {"file", "dir"} /\ o.create_new
            THEN Resolved("AlreadyExists", node, NoHandle, fnode_opts)
        ELSE IF r.kind = "none" /\ ~WantsCreate(o)
            THEN Resolved("NotFound", node, NoHandle, fnode_opts)
        ELSE IF r.kind = "error"
            THEN Resolved("ResolveErr", node, NoHandle, fnode_opts)
        ELSE IF r.kind = "none" /\ cf # "Ok"
            THEN Resolved(cf, node, NoHandle, fnode_opts)
        ELSE IF n1.kind = "dir"
            THEN Resolved("IsDir", node, NoHandle, fnode_opts)
        ELSE IF o.truncate /\ n1.len > 0         \* file.set_len(0)
            THEN Resolved("Ok", FileNode(0), h, o1)
        ELSE Resolved("Ok", n1, h, o1)

\* an open that does not look at the version limit
OptionsOpenUnchecked(fs, ro, node, o, p, cf) ==
    IF fs = "closed" THEN Outcome("Closed", node, FALSE, FALSE)
    ELSE OpenFileWithOptions(ro, node, o, p, cf)

\* OpenOptions::open
OptionsOpen(fs, ro, node, o, p, cf) ==
    IF o.version_limit = 0 THEN Outcome("InvalidArgument", node, FALSE, FALSE)
    ELSE IF fs = "closed" THEN Outcome("Closed", node, FALSE, FALSE)
    ELSE OpenFileWithOptions(ro, node, o, p, cf)

\* the call reaches create_fnode
Creates(o, p) ==
    /\ repo_fs = "open"
    /\ o.version_limit # 0
    /\ ~(fs_ro /\ IsMutating(o))
    /\ Resolve(p, fs_node).kind = "none"
    /\ WantsCreate(o)

NoCall ==
    [op |-> "none", opts |-> OpenOptionsNew, was |-> "open",
     res |-> "Ok", access |-> FALSE, resolved |-> FALSE, changed |-> FALSE,
     at |-> "-", handle |-> NoHandle]

\* the record of a call: the repository's state when it was made, the
\* options it was given, what was at its path ("-": it takes no path), its
\* result, whether it reached the Fs, whether it resolved the path, whether
\* it changed the fnode, the file handle it returned
Called(op, o, p, out) ==
    [op |-> op, opts |-> o, was |-> repo_fs, res |-> out.res,
     access |-> out.access, resolved |-> out.resolved,
     changed |-> (out.node # fs_node),
     at |-> IF p = "-" THEN "-" ELSE Resolve(p, fs_node).kind,
     handle |-> out.handle]

RepoStart ==
    /\ repo_fs = "open"
    /\ fs_ro = FALSE
    /\ fs_node = NoNode
    /\ fs_close_res = "none"
    /\ last = NoCall
    /\ fs_opts = DefaultOptions
    /\ fnode_opts = DefaultOptions

\* the file options a repository and a file may carry
FileOptions == [version_limit : {1, DEFAULT_VERSION_LIMIT}, dedup_chunk : BOOLEAN]

\* RepoOpener::open on a volume that holds any tree, read-only or not, with
\* any default file options
RepoOpened ==
    /\ repo_fs = "open"
    /\ fs_ro \in BOOLEAN
    /\ fs_node \in Nodes
    /\ fs_close_res = "none"
    /\ last = NoCall
    /\ fs_opts \in FileOptions
    /\ fnode_opts \in FileOptions

\* an entry point's call returns out
Return(op, o, p, out) ==
    /\ last = NoCall
    /\ last' = Called(op, o, p, out)
    /\ fs_node' = out.node
    /\ fnode_opts' = out.nopts
    /\ UNCHANGED <<repo_fs, fs_ro, fs_close_res, fs_opts>>
    /\ UNCHANGED notRepo

\* the caller is done with the Result an entry point returned
ResultDropped ==
    /\ last # NoCall
    /\ last' = NoCall
    /\ UNCHANGED <<repo_fs, fs_ro, fs_node, fs_close_res, fs_opts, fnode_opts>>
    /\ UNCHANGED notRepo

\* a close that keeps the Fs when Fs.close fails
RepoCloseKeepsOnError ==
    \/ /\ repo_fs = "open"
       /\ last = NoCall
       /\ \E r \in {"Ok", "Err"} :
            /\ fs_close_res' = r
            /\ repo_fs' = IF r = "Ok" THEN "closed" ELSE "open"
            /\ last' = Called("close", OpenOptionsNew, "-", Outcome(r, fs_node, TRUE, FALSE))
       /\ UNCHANGED <<fs_ro, fs_node, fs_opts, fnode_opts>>
       /\ UNCHANGED notRepo
    \/ /\ repo_fs = "closed"
       /\ last = NoCall
       /\ last' = Called("close", OpenOptionsNew, "-", Outcome("Ok", fs_node, FALSE, FALSE))
       /\ UNCHANGED <<repo_fs, fs_ro, fs_node, fs_close_res, fs_opts, fnode_opts>>
       /\ UNCHANGED notRepo

\* Repo::close: self.fs.take(), then fs.close() on what was taken
RepoClose ==
    \/ /\ repo_fs = "open"
       /\ last = NoCall
       /\ repo_fs' = "closed"
       /\ \E r \in {"Ok", "Err"} :
            /\ fs_close_res' = r
            /\ last' = Called("close", OpenOptionsNew, "-", Outcome(r, fs_node, TRUE, FALSE))
       /\ UNCHANGED <<fs_ro, fs_node, fs_opts, fnode_opts>>
       /\ UNCHANGED notRepo
    \/ /\ repo_fs = "closed"
       /\ last = NoCall
       /\ last' = Called("close", OpenOptionsNew, "-", Outcome("Ok", fs_node, FALSE, FALSE))
       /\ UNCHANGED <<repo_fs, fs_ro, fs_node, fs_close_res, fs_opts, fnode_opts>>
       /\ UNCHANGED notRepo

\* match self.fs { Some(fs) => fs.<op>(..), None => Err(Closed) }, the Fs
\* method answering Ok or an error; a mutating method that succeeds on a
\* writable Fs may leave any fnode at "/a", a read-only Fs changes nothing
DelegateUnchecked(op, mutating, p) ==
    \E r \in {"Ok", "Err"} : \E n \in Nodes :
        /\ IF mutating /\ r = "Ok" /\ ~fs_ro THEN TRUE ELSE n = fs_node
        /\ ~(mutating /\ fs_ro /\ r = "Ok")
        /\ Return(op, OpenOptionsNew, p, Outcome(r, n, TRUE, FALSE))

Delegate(op, mutating, p) ==
    \/ /\ repo_fs = "closed"
       /\ Return(op, OpenOptionsNew, p, Outcome("Closed", fs_node, FALSE, FALSE))
    \/ /\ repo_fs = "open"
       /\ \E r \in {"Ok", "Err"} : \E n \in Nodes :
            /\ IF mutating /\ r = "Ok" /\ ~fs_ro THEN TRUE ELSE n = fs_node
            /\ ~(mutating /\ fs_ro /\ r = "Ok")
            /\ Return(op, OpenOptionsNew, p, Outcome(r, n, TRUE, FALSE))

\* an entry point that answers from Fs.resolve
Query(op, p, answer) ==
    Return(op, OpenOptionsNew, p,
           IF repo_fs = "closed" THEN Outcome("Closed", fs_node, FALSE, FALSE)
           ELSE Outcome(IF answer THEN "true" ELSE "false", fs_node, TRUE, TRUE))

Info ==
    Return("info", OpenOptionsNew, "-",
           IF repo_fs = "closed" THEN Outcome("Closed", fs_node, FALSE, FALSE)
           ELSE Outcome("Ok", fs_node, TRUE, FALSE))

ResetPassword == Delegate("reset_password", FALSE, "-")

PathExists(p) == Query("path_exists", p, Resolve(p, fs_node).kind # "none")

IsFile(p) == Query("is_file", p, Resolve(p, fs_node).kind = "file")

IsDir(p) == Query("is_dir", p, Resolve(p, fs_node).kind = "dir")

CreateFile(p, cf) ==
    /\ cf = "Ok" \/ Creates(CreateFileOptions, p)
    /\ Return("create_file", CreateFileOptions, p,
              IF repo_fs = "closed" THEN Outcome("Closed", fs_node, FALSE, FALSE)
              ELSE OptionsOpen(repo_fs, fs_ro, fs_node, CreateFileOptions, p, cf))

OpenFile(p) ==
    Return("open_file", OpenOptionsNew, p,
           IF repo_fs = "closed" THEN Outcome("Closed", fs_node, FALSE, FALSE)
           ELSE OptionsOpen(repo_fs, fs_ro, fs_node, OpenOptionsNew, p, "Ok"))

Open(o, p, cf) ==
    /\ cf = "Ok" \/ Creates(o, p)
    /\ Return("open", o, p, OptionsOpen(repo_fs, fs_ro, fs_node, o, p, cf))

CreateDir(p) == Delegate("create_dir", TRUE, p)

CreateDirAll(p) == Delegate("create_dir_all", TRUE, p)

ReadDir(p) == Delegate("read_dir", FALSE, p)

Metadata(p) == Delegate("metadata", FALSE, p)

History(p) == Delegate("history", FALSE, p)

Copy(p) == Delegate("copy", TRUE, p)

RemoveFile(p) == Delegate("remove_file", TRUE, p)

RemoveDir(p) == Delegate("remove_dir", TRUE, p)

RemoveDirAll(p) == Delegate("remove_dir_all", TRUE, p)

Rename(p) == Delegate("rename", TRUE, p)

\* the arguments a call is made with: none while the Result of the last
\* call is still held
Args(S) == IF last = NoCall THEN S ELSE {}

\* one call at a time: the next one is made when the last Result is dropped
RepoNext ==
    \/ ResultDropped
    \/ RepoClose
    \/ Info
    \/ ResetPassword
    \/ \E p \in Args(Paths) : PathExists(p)
    \/ \E p \in Args(Paths) : IsFile(p)
    \/ \E p \in Args(Paths) : IsDir(p)
    \/ \E p \in Args(Paths) : \E cf \in {"Ok", "Err"} : CreateFile(p, cf)
    \/ \E p \in Args(Paths) : OpenFile(p)
    \/ \E o \in Args(AllOptions) : \E p \in Paths : \E cf \in {"Ok", "Err"} : Open(o, p, cf)
    \/ \E p \in Args(Paths) : CreateDir(p)
    \/ \E p \in Args(Paths) : CreateDirAll(p)
    \/ \E p \in Args(Paths) : ReadDir(p)
    \/ \E p \in Args(Paths) : Metadata(p)
    \/ \E p \in Args(Paths) : History(p)
    \/ \E p \in Args(Paths) : Copy(p)
    \/ \E p \in Args(Paths) : RemoveFile(p)
    \/ \E p \in Args(Paths) : RemoveDir(p)
    \/ \E p \in Args(Paths) : RemoveDirAll(p)
    \/ \E p \in Args(Paths) : Rename(p)

-----------------------------------------------------------------------------
(* RepoOpener: the setters and open, down to the depot Storage::new picks   *)

\* a URI is <<scheme, location>>: "file://a" is <<"file", "a">>
Uris == {<<"file", "a">>, <<"mem", "m">>, <<"zip", "z">>}

\* the u8 values given to version_limit
VersionLimits == (0..MaxVersionLimit) \cup {DEFAULT_VERSION_LIMIT, U8Max}

\* RepoOpener::new(): RepoOpener::default(), its cfg Config::default()
\* (ops_limit, mem_limit, cipher, compress and dedup_chunk, which open never
\* reads, are left out)
OpenerNew ==
    [create |-> FALSE, create_new |-> FALSE, read_only |-> FALSE,
     version_limit |-> DEFAULT_VERSION_LIMIT]

\* Storage::new: the depot chosen for a URI
StorageNew(uri) == IF uri[1] = "file" THEN "file" ELSE "InvalidUri"

\* Repo::exists over Fs::exists: the depot's exists(), once Storage::new has
\* accepted the URI
FsExists(uri, rs) ==
    IF StorageNew(uri) = "InvalidUri" THEN "InvalidUri"
    ELSE IF uri \in rs THEN "true" ELSE "false"

\* an open that goes for Repo::create whatever was validated
OpenerDecideUnchecked(o, ex) ==
    IF o.create
       THEN IF ex \notin {"true", "false"} THEN ex
            ELSE IF ex = "true"
                THEN IF o.create_new THEN "AlreadyExists" ELSE "open"
            ELSE "create"
       ELSE "open"

\* RepoOpener::open: what it returns or which of Repo::open and
\* Repo::create it calls, ex being the answer of Repo::exists
OpenerDecide(o, ex) ==
    IF o.version_limit = 0 THEN "InvalidArgument"
    ELSE IF o.create
       THEN IF o.read_only THEN "InvalidArgument"
            ELSE IF ex \notin {"true", "false"} THEN ex
            ELSE IF ex = "true"
                THEN IF o.create_new THEN "AlreadyExists" ELSE "open"
            ELSE "create"
       ELSE "open"

NotOpened ==
    [res |-> "none", act |-> "none", by |-> OpenerNew, uri |-> <<"file", "a">>,
     exists |-> "false", ro |-> FALSE, depot |-> "none"]

\* the record of an open call: its result, the Repo function it called, the
\* opener and the URI it was made with, what Repo::exists answers for the
\* URI, whether the Fs was opened read-only, the depot chosen
OpenCall(res, act, uri, ro, depot) ==
    [res |-> res, act |-> act, by |-> opener, uri |-> uri,
     exists |-> FsExists(uri, repos), ro |-> ro, depot |-> depot]

OpenerStart ==
    /\ opener = OpenerNew
    /\ repos = {}
    /\ opened = NotOpened

OpenerCreate(b) ==
    /\ opener' = [opener EXCEPT !.create = b]
    /\ UNCHANGED <<repos, opened>>
    /\ UNCHANGED notOpener

OpenerCreateNew(b) ==
    /\ opener' = [opener EXCEPT !.create_new = b,
                                !.create = IF b THEN TRUE ELSE @]
    /\ UNCHANGED <<repos, opened>>
    /\ UNCHANGED notOpener

OpenerVersionLimit(v) ==
    /\ opener' = [opener EXCEPT !.version_limit = v]
    /\ UNCHANGED <<repos, opened>>
    /\ UNCHANGED notOpener

OpenerReadOnly(b) ==
    /\ opener' = [opener EXCEPT !.read_only = b]
    /\ UNCHANGED <<repos, opened>>
    /\ UNCHANGED notOpener

\* Repo::open: Fs::open on the depot of the URI; a repository that is there
\* opens or is refused (wrong password)
RepoOpen(uri) ==
    /\ OpenerDecide(opener, FsExists(uri, repos)) = "open"
    /\ \E r \in {"Ok", "WrongPassword"} :
         opened' = OpenCall(IF StorageNew(uri) = "InvalidUri" THEN "InvalidUri"
                            ELSE IF uri \notin repos THEN "NotFound" ELSE r,
                            "open", uri, opener.read_only, StorageNew(uri))
    /\ UNCHANGED <<opener, repos>>
    /\ UNCHANGED notOpener

\* Repo::create: Fs::create on the depot of the URI, which may fail
RepoCreate(uri) ==
    /\ OpenerDecide(opener, FsExists(uri, repos)) = "create"
    /\ \E r \in {"Ok", "Err"} :
         /\ opened' = OpenCall(r, "create", uri, FALSE, StorageNew(uri))
         /\ repos' = IF r = "Ok" THEN repos \cup {uri} ELSE repos
    /\ UNCHANGED opener
    /\ UNCHANGED notOpener

\* open returns an error of its own
OpenerRefuse(uri) ==
    /\ OpenerDecide(opener, FsExists(uri, repos)) \notin {"open", "create"}
    /\ opened' = OpenCall(OpenerDecide(opener, FsExists(uri, repos)), "none", uri,
                          FALSE, "none")
    /\ UNCHANGED <<opener, repos>>
    /\ UNCHANGED notOpener

OpenerOpen(uri) == RepoOpen(uri) \/ RepoCreate(uri) \/ OpenerRefuse(uri)

OpenerNext ==
    \/ \E b \in BOOLEAN : OpenerCreate(b)
    \/ \E b \in BOOLEAN : OpenerCreateNew(b)
    \/ \E v \in VersionLimits : OpenerVersionLimit(v)
    \/ \E b \in BOOLEAN : OpenerReadOnly(b)
    \/ \E uri \in Uris : OpenerOpen(uri)

-----------------------------------------------------------------------------
(* OpenOptions: the setters, applied to a value made by OpenOptions::new() *)

OptionsRead(o, b) == [o EXCEPT !.read = b]

OptionsWrite(o, b) == [o EXCEPT !.write = b]

\* an append that leaves the write flag alone
OptionsAppendOnly(o, b) == [o EXCEPT !.append = b]

OptionsAppend(o, b) == [o EXCEPT !.append = b, !.write = IF b THEN TRUE ELSE @]

OptionsTruncate(o, b) == [o EXCEPT !.truncate = b, !.write = IF b THEN TRUE ELSE @]

OptionsCreate(o, b) == [o EXCEPT !.create = b, !.write = IF b THEN TRUE ELSE @]

\* a create_new that leaves the create flag alone
OptionsCreateNewNoCreate(o, b) ==
    [o EXCEPT !.create_new = b, !.write = IF b THEN TRUE ELSE @]

OptionsCreateNew(o, b) ==
    [o EXCEPT !.create_new = b, !.create = IF b THEN TRUE ELSE @,
              !.write = IF b THEN TRUE ELSE @]

OptionsVersionLimit(o, v) == [o EXCEPT !.version_limit = v]

OptionsDedupChunk(o, b) ==
    [o EXCEPT !.dedup_chunk = IF b THEN "Some(true)" ELSE "Some(false)"]

\* a boolean argument as it is written in oo_calls
Arg(b) == IF b THEN 1 ELSE 0

OptionsStart ==
    /\ oo = OpenOptionsNew
    /\ oo_calls = <<>>

\* a setter call that leaves the options as o2
OoSet(name, n, o2) ==
    /\ Len(oo_calls) < MaxCalls
    /\ oo' = o2
    /\ oo_calls' = Append(oo_calls, <<name, n>>)
    /\ UNCHANGED notOptions

OoRead(b) == OoSet("read", Arg(b), OptionsRead(oo, b))

OoWrite(b) == OoSet("write", Arg(b), OptionsWrite(oo, b))

OoAppend(b) == OoSet("append", Arg(b), OptionsAppend(oo, b))

OoTruncate(b) == OoSet("truncate", Arg(b), OptionsTruncate(oo, b))

OoCreate(b) == OoSet("create", Arg(b), OptionsCreate(oo, b))

OoCreateNew(b) == OoSet("create_new", Arg(b), OptionsCreateNew(oo, b))

OoVersionLimit(v) == OoSet("version_limit", v, OptionsVersionLimit(oo, v))

OoDedupChunk(b) == OoSet("dedup_chunk", Arg(b), OptionsDedupChunk(oo, b))

OptionsNext ==
    \/ \E b \in BOOLEAN : OoRead(b)
    \/ \E b \in BOOLEAN : OoWrite(b)
    \/ \E b \in BOOLEAN : OoAppend(b)
    \/ \E b \in BOOLEAN : OoTruncate(b)
    \/ \E b \in BOOLEAN : OoCreate(b)
    \/ \E b \in BOOLEAN : OoCreateNew(b)
    \/ \E v \in 0..MaxVersionLimit : OoVersionLimit(v)
    \/ \E b \in BOOLEAN : OoDedupChunk(b)

-----------------------------------------------------------------------------
(* Depot index: the addresses FileStorage keeps through IndexMgr, buffered  *)
(* until flush                                                              *)

\* the byte arrays put as addresses; 0 stands for no address
Addrs == 1..MaxAddr

\* idx_buf: no buffered update
Clean == -1

\* IndexMgr::read_addr: the buffered update if there is one, else what is
\* on disk
IndexGet(id) == IF idx_buf[id] # Clean THEN idx_buf[id] ELSE idx_disk[id]

IdxCall(op, id, val, res) ==
    [op |-> op, id |-> id, val |-> val, res |-> res, prev |-> idx_last.op]

IndexStart ==
    /\ idx_buf = [id \in Eids |-> Clean]
    /\ idx_disk = [id \in Eids |-> 0]
    /\ idx_last = [op |-> "init", id |-> "e1", val |-> 0, res |-> "Ok", prev |-> "new"]

IdxGetAddress(id) ==
    /\ idx_last' = IdxCall("get", id, IndexGet(id),
                           IF IndexGet(id) = 0 THEN "NotFound" ELSE "Ok")
    /\ UNCHANGED <<idx_buf, idx_disk>>
    /\ UNCHANGED notIndex

IdxPutAddress(id, a) ==
    /\ idx_buf' = [idx_buf EXCEPT ![id] = a]
    /\ idx_last' = IdxCall("put", id, a, "Ok")
    /\ UNCHANGED idx_disk
    /\ UNCHANGED notIndex

IdxDelAddress(id) ==
    /\ idx_buf' = [idx_buf EXCEPT ![id] = 0]
    /\ idx_last' = IdxCall("del", id, 0, "Ok")
    /\ UNCHANGED idx_disk
    /\ UNCHANGED notIndex

\* a flush that writes the buffered puts and forgets the buffered deletions
IdxFlushKeepsDeleted ==
    /\ idx_disk' = [id \in Eids |-> IF idx_buf[id] > 0 THEN idx_buf[id] ELSE idx_disk[id]]
    /\ idx_buf' = [id \in Eids |-> Clean]
    /\ idx_last' = IdxCall("flush", "e1", 0, "Ok")
    /\ UNCHANGED notIndex

\* flush: every buffered update is persisted
IdxFlush ==
    /\ idx_disk' = [id \in Eids |-> IndexGet(id)]
    /\ idx_buf' = [id \in Eids |-> Clean]
    /\ idx_last' = IdxCall("flush", "e1", 0, "Ok")
    /\ UNCHANGED notIndex

\* the depot is dropped and opened again (FileStorage::new, then open): of
\* the updates not flushed any part may have been persisted
IdxReopened ==
    /\ \E kept \in SUBSET {id \in Eids : idx_buf[id] # Clean} :
         idx_disk' = [id \in Eids |-> IF id \in kept THEN idx_buf[id] ELSE idx_disk[id]]
    /\ idx_buf' = [id \in Eids |-> Clean]
    /\ idx_last' = IdxCall("reopen", "e1", 0, "Ok")

IdxReopen == IdxReopened /\ UNCHANGED notIndex

IndexNext ==
    \/ \E id \in Eids : IdxGetAddress(id)
    \/ \E id \in Eids : \E a \in Addrs : IdxPutAddress(id, a)
    \/ \E id \in Eids : IdxDelAddress(id)
    \/ IdxFlush
    \/ IdxReopen

-----------------------------------------------------------------------------
(* FileStorage: the depot's location, its super block files and its WAL    *)
(* files, which are written straight to the file system                    *)

WalVals == 1..MaxWal

\* no file at the path; a file that was created or truncated and whose
\* content was not written
NoFile == -1
Torn == 0

Suffixes == {0, 1}

\* the base directory holds nothing but the WAL file of id
OnlyFileIs(id) ==
    /\ \A e \in Eids \ {id} : fst_wal[e] = NoFile
    /\ \A x \in Suffixes : fst_sb[x] = NoFile

FstCall(op, id, sfx, val, res) ==
    [op |-> op, id |-> id, sfx |-> sfx, val |-> val, res |-> res]

FileStart ==
    /\ fst_base = "none"
    /\ fst_wal = [id \in Eids |-> NoFile]
    /\ fst_sb = [x \in Suffixes |-> NoFile]
    /\ fst_last = FstCall("new", "-", -1, 0, "Ok")

\* FileStorage::exists: vio::metadata(base)
FstExists ==
    /\ fst_last' = FstCall("exists", "-", -1, 0,
                           CASE fst_base = "none" -> "false"
                             [] fst_base = "unreadable" -> "Err"
                             [] OTHER -> "true")
    /\ UNCHANGED <<fst_base, fst_wal, fst_sb>>
    /\ UNCHANGED notFile

\* FileStorage::init: create_dir_all of the index and the data directory
FstInit ==
    /\ fst_base \in {"none", "dir", "init"}
    /\ \E r \in {"Ok", "Err"} :
         /\ fst_base' = IF r = "Ok" THEN "init" ELSE fst_base
         /\ fst_last' = FstCall("init", "-", -1, 0, r)
    /\ UNCHANGED <<fst_wal, fst_sb>>
    /\ UNCHANGED notFile

\* the location is made by someone else, or made unreadable, or readable
\* again
FstLocation ==
    /\ \/ fst_base = "none" /\ fst_base' = "dir"
       \/ fst_base = "none" /\ fst_base' = "unreadable"
       \/ fst_base = "unreadable" /\ fst_base' = "none"
    /\ OnlyFileIs("-")
    /\ fst_last' = FstCall("location", "-", -1, 0, "Ok")
    /\ UNCHANGED <<fst_wal, fst_sb>>
    /\ UNCHANGED notFile

\* FileStorage::put_super_block: open with write, create, truncate, then
\* write_all; r says how far it gets
FstPutSuperBlock(x, v, r) ==
    /\ IF fst_base \in {"none", "unreadable"} \/ r = "ErrOpen"
          THEN /\ fst_sb' = fst_sb
               /\ fst_last' = FstCall("put_super_block", "-", x, v, "Err")
          ELSE /\ fst_sb' = [fst_sb EXCEPT ![x] = IF r = "Ok" THEN v ELSE Torn]
               /\ fst_last' = FstCall("put_super_block", "-", x, v,
                                      IF r = "Ok" THEN "Ok" ELSE "Err")
    /\ UNCHANGED <<fst_base, fst_wal>>
    /\ UNCHANGED notFile

\* FileStorage::get_super_block: open, read_to_end
FstGetSuperBlock(x) ==
    /\ fst_last' = IF fst_base = "unreadable" \/ fst_sb[x] = NoFile
                      THEN FstCall("get_super_block", "-", x, 0, "Err")
                      ELSE FstCall("get_super_block", "-", x, fst_sb[x], "Ok")
    /\ UNCHANGED <<fst_base, fst_wal, fst_sb>>
    /\ UNCHANGED notFile

\* FileStorage::get_wal
FstGetWal(id) ==
    /\ fst_last' = IF fst_base = "unreadable" \/ fst_wal[id] = NoFile
                      THEN FstCall("get_wal", id, -1, 0, "NotFound")
                      ELSE FstCall("get_wal", id, -1, fst_wal[id], "Ok")
    /\ UNCHANGED <<fst_base, fst_wal, fst_sb>>
    /\ UNCHANGED notFile

\* FileStorage::put_wal: ensure_parents_dir, open with write, create,
\* truncate, then write_all; r says how far it gets
FstPutWal(id, w, r) ==
    /\ IF fst_base = "unreadable" \/ r = "ErrOpen"
          THEN /\ UNCHANGED <<fst_wal, fst_base>>
               /\ fst_last' = FstCall("put_wal", id, -1, w, "Err")
          ELSE /\ fst_wal' = [fst_wal EXCEPT ![id] = IF r = "Ok" THEN w ELSE Torn]
               /\ fst_base' = IF fst_base = "none" THEN "dir" ELSE fst_base
               /\ fst_last' = FstCall("put_wal", id, -1, w,
                                      IF r = "Ok" THEN "Ok" ELSE "Err")
    /\ UNCHANGED fst_sb
    /\ UNCHANGED notFile

\* a del_wal that reports a missing record
FstDelWalStrict(id, r) ==
    /\ fst_wal[id] = NoFile
    /\ fst_last' = FstCall("del_wal", id, -1, 0, "NotFound")
    /\ UNCHANGED <<fst_base, fst_wal, fst_sb>>
    /\ UNCHANGED notFile

\* FileStorage::del_wal: when the file is there, remove_file and then
\* util::remove_empty_parent_dir, which removes every ancestor directory
\* that is left empty; r says how far it gets
FstDelWal(id, r) ==
    /\ IF fst_base = "unreadable" \/ fst_wal[id] = NoFile
          THEN /\ UNCHANGED <<fst_wal, fst_base>>
               /\ fst_last' = FstCall("del_wal", id, -1, 0, "Ok")
          ELSE IF r = "ErrRemove"
          THEN /\ UNCHANGED <<fst_wal, fst_base>>
               /\ fst_last' = FstCall("del_wal", id, -1, 0, "Err")
          ELSE /\ fst_wal' = [fst_wal EXCEPT ![id] = NoFile]
               /\ fst_base' = IF r = "Ok" /\ fst_base = "dir" /\ OnlyFileIs(id)
                                 THEN "none" ELSE fst_base
               /\ fst_last' = FstCall("del_wal", id, -1, 0,
                                      IF r = "Ok" THEN "Ok" ELSE "Err")
    /\ UNCHANGED fst_sb
    /\ UNCHANGED notFile

\* a re-open that comes back with no WAL file
FstReopenLosesWal ==
    /\ fst_wal' = [id \in Eids |-> NoFile]
    /\ fst_last' = FstCall("reopen", "-", -1, 0, "Ok")
    /\ UNCHANGED <<fst_base, fst_sb>>

\* the FileStorage is dropped, or the process crashes, and the depot is
\* opened again: FileStorage::new, then open. Super block and WAL files are
\* not held in memory
FstReopened ==
    /\ fst_last' = FstCall("reopen", "-", -1, 0, "Ok")
    /\ UNCHANGED <<fst_base, fst_wal, fst_sb>>

FstReopen == FstReopened /\ UNCHANGED notFile

FileNext ==
    \/ FstExists
    \/ FstInit
    \/ FstLocation
    \/ \E x \in Suffixes : \E v \in WalVals : \E r \in {"Ok", "ErrOpen", "ErrWrite"} :
         FstPutSuperBlock(x, v, r)
    \/ \E x \in Suffixes : FstGetSuperBlock(x)
    \/ \E id \in Eids : FstGetWal(id)
    \/ \E id \in Eids : \E w \in WalVals : \E r \in {"Ok", "ErrOpen", "ErrWrite"} :
         FstPutWal(id, w, r)
    \/ \E id \in Eids : \E r \in {"Ok", "ErrRemove", "ErrDir"} : FstDelWal(id, r)
    \/ FstReopen

-----------------------------------------------------------------------------
(* Sectors: the blocks FileStorage keeps through SectorMgr, one file for    *)
(* every SectorBlks consecutive blocks                                     *)

Sectors == 0..(MaxSectors - 1)
BlockIds == 0..(MaxSectors * SectorBlks - 1)
BlkVals == 1..MaxBlkVal

\* a block that was never written; a block that was deleted
NewBlk == 0
DelBlk == -1

\* Span::new(begin, cnt) within the blocks of the model
SecSpans == {sp \in [begin : BlockIds, cnt : 1..(MaxSectors * SectorBlks)] :
                sp.begin + sp.cnt - 1 \in BlockIds}
InSpan(b, sp) == b >= sp.begin /\ b < sp.begin + sp.cnt

SectorOf(b) == b \div SectorBlks
OffsetOf(b) == b % SectorBlks
BlocksOf(s) == {b \in BlockIds : SectorOf(b) = s}

\* every block of the sector has been written
SectorFull(blk, s) == \A b \in BlocksOf(s) : blk[b] # NewBlk
AllDeleted(blk, s) == \A b \in BlocksOf(s) : blk[b] \in {NewBlk, DelBlk}

\* a file whose tail block is deleted cut back to nothing
ShrinkToHead(blk, s, n) ==
    IF n > 0 /\ blk[s * SectorBlks + n - 1] = DelBlk THEN 0 ELSE n

\* the file of n blocks cut back to its last block that is not deleted
RECURSIVE ShrinkTail(_, _, _)
ShrinkTail(blk, s, n) ==
    IF n > 0 /\ blk[s * SectorBlks + n - 1] = DelBlk
       THEN ShrinkTail(blk, s, n - 1) ELSE n

\* a deletion that never removes a sector file
SizeAfterDelKeepsFile(blk, s, n) ==
    IF n = NoFile THEN NoFile ELSE ShrinkTail(blk, s, n)

\* the size of a sector file after a deletion left the blocks as blk: a
\* full sector with every block deleted loses its file, any other file is
\* cut back from its tail
SizeAfterDel(blk, s, n) ==
    IF n = NoFile THEN NoFile
    ELSE IF SectorFull(blk, s) /\ AllDeleted(blk, s) THEN NoFile
    ELSE ShrinkTail(blk, s, n)

\* the size of a sector file after blocks were written into it
SizeAfterPut(sp, s, n) ==
    LET written == {OffsetOf(b) + 1 : b \in {c \in BlocksOf(s) : InSpan(c, sp)}}
        reach == IF written = {} THEN 0
                 ELSE CHOOSE k \in written : \A j \in written : j <= k
    IN  IF written = {} THEN n
        ELSE IF n = NoFile \/ n < reach THEN reach ELSE n

\* a block can be read: it holds content that lies inside its sector file
Readable(b) ==
    /\ sec_blk[b] \in BlkVals
    /\ sec_size[SectorOf(b)] # NoFile
    /\ OffsetOf(b) < sec_size[SectorOf(b)]

NoSpan == [begin |-> 0, cnt |-> 1]

\* the content of the blocks of a span, in order
SpanContent(blk, sp) == [i \in 1..sp.cnt |-> blk[sp.begin + i - 1]]

SecCall(op, sp, val, res) == [op |-> op, span |-> sp, val |-> val, res |-> res]

SectorStart ==
    /\ sec_blk = [b \in BlockIds |-> NewBlk]
    /\ sec_size = [s \in Sectors |-> NoFile]
    /\ sec_last = SecCall("new", NoSpan, <<>>, "Ok")

\* put_blocks(span, blks): every block of the span gets its content
SecPutBlocks(sp, v) ==
    /\ sec_blk' = [b \in BlockIds |-> IF InSpan(b, sp) THEN v ELSE sec_blk[b]]
    /\ sec_size' = [s \in Sectors |-> SizeAfterPut(sp, s, sec_size[s])]
    /\ sec_last' = SecCall("put", sp, [i \in 1..sp.cnt |-> v], "Ok")
    /\ UNCHANGED notSector

\* get_blocks(dst, span): NotFound unless every block of the span can be
\* read
SecGetBlocks(sp) ==
    /\ sec_last' = IF \A b \in BlockIds : InSpan(b, sp) => Readable(b)
                      THEN SecCall("get", sp, SpanContent(sec_blk, sp), "Ok")
                      ELSE SecCall("get", sp, <<>>, "NotFound")
    /\ UNCHANGED <<sec_blk, sec_size>>
    /\ UNCHANGED notSector

\* del_blocks(span)
SecDelBlocks(sp) ==
    /\ sec_blk' = [b \in BlockIds |->
                      IF InSpan(b, sp) /\ sec_blk[b] # NewBlk THEN DelBlk ELSE sec_blk[b]]
    /\ sec_size' = [s \in Sectors |->
                       IF \E b \in BlocksOf(s) : InSpan(b, sp)
                          THEN SizeAfterDel(sec_blk', s, sec_size[s])
                          ELSE sec_size[s]]
    /\ sec_last' = SecCall("del", sp, <<>>, "Ok")
    /\ UNCHANGED notSector

\* the depot is dropped and opened again: the sector files are what they
\* were
SecReopened ==
    /\ sec_last' = SecCall("reopen", NoSpan, <<>>, "Ok")
    /\ UNCHANGED <<sec_blk, sec_size>>

SecReopen == SecReopened /\ UNCHANGED notSector

SectorNext ==
    \/ \E sp \in SecSpans : \E v \in BlkVals : SecPutBlocks(sp, v)
    \/ \E sp \in SecSpans : SecGetBlocks(sp)
    \/ \E sp \in SecSpans : SecDelBlocks(sp)
    \/ SecReopen

-----------------------------------------------------------------------------
(* Fnodes and the content store: a file's bounded list of versions, each a  *)
(* list of chunks, and the chunk map with its reference counts             *)

Fnodes == {"f1", "f2"}
Hashes == 1..MaxHash
NoFnode == [limit |-> 0]
NoChunk == [refcnt |-> 0, span |-> 0]

\* the chunk lists a version can hold: no chunk twice, at most MaxChunks
RECURSIVE SeqsUpTo(_, _)
SeqsUpTo(S, n) ==
    IF n = 0 THEN {<<>>}
    ELSE LET shorter == SeqsUpTo(S, n - 1)
         IN  shorter \cup {Append(q, x) : q \in shorter, x \in S}

NoRepeat(q) == \A i, j \in 1..Len(q) : q[i] = q[j] => i = j
ChunkLists == {q \in SeqsUpTo(Hashes, MaxChunks) : NoRepeat(q)}

\* Chunk.len: the bytes of a chunk, here one more than its hash
ChunkLen(h) == h + 1

RECURSIVE ContentLen(_)
ContentLen(q) == IF q = <<>> THEN 0 ELSE ChunkLen(Head(q)) + ContentLen(Tail(q))

\* a version {len, content}
VersionOf(q) == [len |-> ContentLen(q), chunks |-> q]

\* the lowest span no chunk of the map occupies
FreeSpan(map) ==
    CHOOSE s \in 1..MaxHash :
        /\ \A h \in Hashes : map[h].span # s
        /\ \A t \in 1..(s - 1) : \E h \in Hashes : map[h].span = t

\* insert path for one chunk: a known id gains a reference and keeps its
\* span, a new one is allocated with refcnt 1
InsertChunk(map, h) ==
    IF map[h] # NoChunk
    THEN [map EXCEPT ![h].refcnt = @ + 1]
    ELSE [map EXCEPT ![h] = [refcnt |-> 1, span |-> FreeSpan(map)]]

\* delete path for one chunk: one reference less; at zero it is released
DeleteChunkKeepsCount(map, h) == map

DeleteChunk(map, h) ==
    IF map[h].refcnt = 1
    THEN [map EXCEPT ![h] = NoChunk]
    ELSE [map EXCEPT ![h].refcnt = @ - 1]

\* a version takes a reference on each of its chunks, inherited or new
RECURSIVE Link(_, _)
Link(map, q) ==
    IF q = <<>> THEN map ELSE Link(InsertChunk(map, Head(q)), Tail(q))

\* a version that goes away gives its references back
RECURSIVE Unlink(_, _)
Unlink(map, q) ==
    IF q = <<>> THEN map ELSE Unlink(DeleteChunk(map, Head(q)), Tail(q))

RECURSIVE UnlinkAll(_, _)
UnlinkAll(map, vs) ==
    IF vs = <<>> THEN map ELSE UnlinkAll(Unlink(map, Head(vs).chunks), Tail(vs))

\* version bookkeeping: the new version goes to the back, and beyond the
\* limit the oldest leaves from the front
PushKeepsAll(vs, v, limit) == Append(vs, v)

PushVersion(vs, v, limit) ==
    IF Len(vs) + 1 > limit THEN Tail(Append(vs, v)) ELSE Append(vs, v)

\* the versions a push drops
Evicted(vs, limit) == IF Len(vs) + 1 > limit THEN <<Head(vs)>> ELSE <<>>

\* the chunks of the newest version (none before the first write)
CurrChunks(f) ==
    IF fn_tab[f].versions = <<>> THEN <<>>
    ELSE fn_tab[f].versions[Len(fn_tab[f].versions)].chunks

FnCall(op, f, pushed, evicted) ==
    [op |-> op, f |-> f, pushed |-> pushed, evicted |-> evicted]

FnodeStart ==
    /\ fn_tab = [f \in Fnodes |-> NoFnode]
    /\ ch_map = [h \in Hashes |-> NoChunk]
    /\ fn_last = FnCall("new", "f1", <<>>, <<>>)

\* create: an fnode with the version limit of its options and no content
FnCreate(f, limit) ==
    /\ fn_tab[f] = NoFnode
    /\ fn_tab' = [fn_tab EXCEPT ![f] =
                      [limit |-> limit, versions |-> <<>>, curr_len |-> 0]]
    /\ fn_last' = FnCall("create", f, <<>>, <<>>)
    /\ UNCHANGED ch_map
    /\ UNCHANGED notFnode

\* a new version made of chunk list q: it is linked, pushed, and what the
\* push evicted is unlinked
FnNewVersion(op, f, q) ==
    LET node == fn_tab[f]
        v    == VersionOf(q)
        out  == Evicted(node.versions, node.limit)
    IN  /\ fn_tab' = [fn_tab EXCEPT ![f] =
                          [node EXCEPT !.versions = PushVersion(@, v, node.limit),
                                       !.curr_len = v.len]]
        /\ ch_map' = UnlinkAll(Link(ch_map, q), out)
        /\ fn_last' = FnCall(op, f, <<v>>, out)
        /\ UNCHANGED notFnode

\* write: the chunks up to the write position are inherited from the current
\* version, the chunks of the data written follow
FnWrite(f, keep, new) ==
    /\ fn_tab[f] # NoFnode
    /\ keep <= Len(CurrChunks(f))
    /\ new # <<>>
    /\ SubSeq(CurrChunks(f), 1, keep) \o new \in ChunkLists
    /\ FnNewVersion("write", f, SubSeq(CurrChunks(f), 1, keep) \o new)

\* truncate: a new version of the leading chunks of the current one
FnTruncate(f, keep) ==
    /\ fn_tab[f] # NoFnode
    /\ keep < Len(CurrChunks(f))
    /\ FnNewVersion("truncate", f, SubSeq(CurrChunks(f), 1, keep))

\* remove: every version gives its references back and the fnode is gone
FnRemove(f) ==
    /\ fn_tab[f] # NoFnode
    /\ fn_tab' = [fn_tab EXCEPT ![f] = NoFnode]
    /\ ch_map' = UnlinkAll(ch_map, fn_tab[f].versions)
    /\ fn_last' = FnCall("remove", f, <<>>, fn_tab[f].versions)
    /\ UNCHANGED notFnode

FnodeNext ==
    \/ \E f \in Fnodes, limit \in 1..MaxFnLimit : FnCreate(f, limit)
    \/ \E f \in Fnodes, keep \in 0..MaxChunks, new \in ChunkLists :
           FnWrite(f, keep, new)
    \/ \E f \in Fnodes, keep \in 0..MaxChunks : FnTruncate(f, keep)
    \/ \E f \in Fnodes : FnRemove(f)

-----------------------------------------------------------------------------
(* Directory tree: files and directories under a root, and rename as one    *)
(* transaction that unlinks, links and commits                              *)

TreeNodes == 1..MaxNodes
Root == 1
NoEntry == 0
Names == {"a", "b"}
Contents == 1..MaxContent

\* the tree of a new repository: the root directory alone
EmptyTree ==
    [kind    |-> [n \in TreeNodes |-> IF n = Root THEN "dir" ELSE "none"],
     ent     |-> [n \in TreeNodes |-> [m \in Names |-> NoEntry]],
     content |-> [n \in TreeNodes |-> 0],
     refs    |-> [c \in Contents |-> 0]]

Child(t, d, n) == t.ent[d][n]
HasChild(t, d) == \E n \in Names : Child(t, d, n) # NoEntry
KindIsDir(t, d) == t.kind[d] = "dir"
FreeNode(t) == CHOOSE x \in TreeNodes : t.kind[x] = "none"

\* is node b node a or below it, looking at most k levels down
RECURSIVE Reaches(_, _, _, _)
Reaches(t, a, b, k) ==
    \/ a = b
    \/ /\ k > 0
       /\ \E n \in Names :
              Child(t, a, n) # NoEntry /\ Reaches(t, Child(t, a, n), b, k - 1)

\* what rename answers before it changes anything
RenameCheck(t, sd, sn, dd, dn) ==
    IF ~KindIsDir(t, sd) \/ ~KindIsDir(t, dd) \/ Child(t, sd, sn) = NoEntry
    THEN "NotFound"
    ELSE IF /\ Child(t, dd, dn) # NoEntry
            /\ KindIsDir(t, Child(t, dd, dn))
            /\ HasChild(t, Child(t, dd, dn))
    THEN "NotEmpty"
    ELSE IF /\ KindIsDir(t, Child(t, sd, sn))
            /\ Reaches(t, Child(t, sd, sn), dd, MaxNodes)
    THEN "InvalidArgument"
    ELSE "Ok"

\* the entry leaves the source parent
Unlinked(t, sd, sn) == [t EXCEPT !.ent[sd][sn] = NoEntry]

\* node old goes away; the content of a file loses a reference
Dropped(t, old) ==
    IF old = NoEntry THEN t
    ELSE [t EXCEPT !.kind[old] = "none",
                   !.content[old] = 0,
                   !.refs = IF t.kind[old] = "file"
                            THEN [@ EXCEPT ![t.content[old]] = @ - 1]
                            ELSE @]

\* node src enters the destination parent, in place of what was there
Linked(t, src, dd, dn) ==
    [Dropped(t, Child(t, dd, dn)) EXCEPT !.ent[dd][dn] = src]

\* the tree a process finds after a crash: what was committed
RecoveredFromMemory(mem, disk) == mem

Recovered(mem, disk) == disk

NoRename ==
    [sd |-> Root, sn |-> "a", dd |-> Root, dn |-> "a", src |-> NoEntry,
     old |-> NoEntry, pre |-> EmptyTree, at |-> "idle", res |-> "none"]

TreeStart ==
    /\ tr_mem = EmptyTree
    /\ tr_disk = EmptyTree
    /\ tr_pc = "idle"
    /\ tr_op = NoRename

\* create_file and create_dir, each a transaction of its own
TrCreateFile(d, n, c) ==
    /\ tr_pc = "idle" /\ tr_op = NoRename
    /\ KindIsDir(tr_mem, d) /\ Child(tr_mem, d, n) = NoEntry
    /\ \E x \in TreeNodes : tr_mem.kind[x] = "none"
    /\ LET x == FreeNode(tr_mem)
           t == [tr_mem EXCEPT !.kind[x] = "file", !.content[x] = c,
                               !.refs[c] = @ + 1, !.ent[d][n] = x]
       IN  tr_mem' = t /\ tr_disk' = t
    /\ tr_op' = NoRename
    /\ UNCHANGED tr_pc
    /\ UNCHANGED notTree

TrCreateDir(d, n) ==
    /\ tr_pc = "idle" /\ tr_op = NoRename
    /\ KindIsDir(tr_mem, d) /\ Child(tr_mem, d, n) = NoEntry
    /\ \E x \in TreeNodes : tr_mem.kind[x] = "none"
    /\ LET x == FreeNode(tr_mem)
           t == [tr_mem EXCEPT !.kind[x] = "dir", !.ent[d][n] = x]
       IN  tr_mem' = t /\ tr_disk' = t
    /\ tr_op' = NoRename
    /\ UNCHANGED tr_pc
    /\ UNCHANGED notTree

\* rename(from, to), from = name sn in directory sd, to = name dn in dd:
\* the checks, and the transaction begins when they pass
TrRename(sd, sn, dd, dn) ==
    /\ tr_pc = "idle" /\ tr_op = NoRename
    /\ <<sd, sn>> # <<dd, dn>>
    /\ LET res == RenameCheck(tr_mem, sd, sn, dd, dn)
       IN  /\ tr_op' = [sd |-> sd, sn |-> sn, dd |-> dd, dn |-> dn,
                        src |-> IF KindIsDir(tr_mem, sd)
                                THEN Child(tr_mem, sd, sn) ELSE NoEntry,
                        old |-> IF KindIsDir(tr_mem, dd)
                                THEN Child(tr_mem, dd, dn) ELSE NoEntry,
                        pre |-> tr_mem, at |-> "idle",
                        res |-> IF res = "Ok" THEN "running" ELSE res]
           /\ tr_pc' = IF res = "Ok" THEN "begun" ELSE "idle"
    /\ UNCHANGED <<tr_mem, tr_disk>>
    /\ UNCHANGED notTree

TrRenameUnlink ==
    /\ tr_pc = "begun"
    /\ tr_mem' = Unlinked(tr_mem, tr_op.sd, tr_op.sn)
    /\ tr_pc' = "unlinked"
    /\ UNCHANGED <<tr_disk, tr_op>>
    /\ UNCHANGED notTree

TrRenameLink ==
    /\ tr_pc = "unlinked"
    /\ tr_mem' = Linked(tr_mem, tr_op.src, tr_op.dd, tr_op.dn)
    /\ tr_pc' = "linked"
    /\ UNCHANGED <<tr_disk, tr_op>>
    /\ UNCHANGED notTree

\* the commit makes the transaction's tree the committed one
TrRenameCommit ==
    /\ tr_pc = "linked"
    /\ tr_disk' = tr_mem
    /\ tr_pc' = "committed"
    /\ UNCHANGED <<tr_mem, tr_op>>
    /\ UNCHANGED notTree

TrRenameReturn ==
    /\ tr_pc = "committed"
    /\ tr_pc' = "idle"
    /\ tr_op' = [tr_op EXCEPT !.res = "Ok"]
    /\ UNCHANGED <<tr_mem, tr_disk>>
    /\ UNCHANGED notTree

\* a step of the transaction fails: it is aborted and the tree in memory is
\* the committed one again
TrRenameFail ==
    /\ tr_pc \in {"begun", "unlinked", "linked"}
    /\ tr_mem' = tr_disk
    /\ tr_pc' = "idle"
    /\ tr_op' = [tr_op EXCEPT !.res = "Err", !.at = tr_pc]
    /\ UNCHANGED tr_disk
    /\ UNCHANGED notTree

\* the process crashes inside rename and the repository is opened again
TrCrash ==
    /\ tr_pc # "idle"
    /\ tr_mem' = Recovered(tr_mem, tr_disk)
    /\ tr_pc' = "idle"
    /\ tr_op' = [tr_op EXCEPT !.res = "crash", !.at = tr_pc]
    /\ UNCHANGED tr_disk
    /\ UNCHANGED notTree

\* the caller has looked at the result of rename and goes on
TrResultDropped ==
    /\ tr_pc = "idle" /\ tr_op # NoRename
    /\ tr_op' = NoRename
    /\ UNCHANGED <<tr_mem, tr_disk, tr_pc>>
    /\ UNCHANGED notTree

TreeNext ==
    \/ \E d \in TreeNodes, n \in Names, c \in Contents : TrCreateFile(d, n, c)
    \/ \E d \in TreeNodes, n \in Names : TrCreateDir(d, n)
    \/ \E sd \in TreeNodes, sn \in Names, dd \in TreeNodes, dn \in Names :
           TrRename(sd, sn, dd, dn)
    \/ TrRenameUnlink
    \/ TrRenameLink
    \/ TrRenameCommit
    \/ TrRenameReturn
    \/ TrRenameFail
    \/ TrCrash
    \/ TrResultDropped

-----------------------------------------------------------------------------
(* Alignment helpers: align_ceil, align_ceil_u64 and align_ceil_chunk on    *)
(* machine integers of AlignBits bits                                       *)

RECURSIVE Pow2(_)
Pow2(n) == IF n = 0 THEN 1 ELSE 2 * Pow2(n - 1)

\* the values of usize and u64, and the sizes 2^n among them
Words == 0..(Pow2(AlignBits) - 1)
PowersOfTwo == {Pow2(n) : n \in 0..(AlignBits - 1)}

\* isize::MIN and i64::MIN, as the bit pattern they share with the unsigned
\* type
SignedMin == Pow2(AlignBits - 1)

\* a & b on bit patterns
RECURSIVE BitAnd(_, _)
BitAnd(a, b) ==
    IF a = 0 \/ b = 0 THEN 0
    ELSE (a % 2) * (b % 2) + 2 * BitAnd(a \div 2, b \div 2)

\* -(x as isize), as a bit pattern; the negation overflows for isize::MIN
Negated(x) == (Pow2(AlignBits) - x) % Pow2(AlignBits)

\* size as isize - 1, as a bit pattern; the subtraction overflows for
\* isize::MIN
MaskOf(size) == (size + Pow2(AlignBits) - 1) % Pow2(AlignBits)

\* (-(x as isize) & (size as isize - 1)) as usize
PadOf(x, size) == BitAnd(Negated(x), MaskOf(size))

\* does the arithmetic of align_ceil overflow on x and size
Overflows(x, size) ==
    \/ x = SignedMin
    \/ size = SignedMin
    \/ x + PadOf(x, size) >= Pow2(AlignBits)

\* the outcome of a call that panics: an arithmetic overflow in a build
\* with overflow checks
Panic == -1

\* a build with overflow checks panics where one without them wraps
align_ceil(x, size, build) ==
    IF x = 0 THEN size
    ELSE IF Overflows(x, size) /\ build = "debug" THEN Panic
    ELSE (x + PadOf(x, size)) % Pow2(AlignBits)

align_ceil_u64(x, size, build) ==
    IF x = 0 THEN size
    ELSE IF Overflows(x, size) /\ build = "debug" THEN Panic
    ELSE (x + PadOf(x, size)) % Pow2(AlignBits)

align_ceil_chunk(x, size, build) ==
    IF align_ceil(x, size, build) = Panic THEN Panic
    ELSE align_ceil(x, size, build) \div size

Builds == {"debug", "release"}
NoAlign == [fn |-> "none", build |-> "debug", res |-> 0, ceil |-> 0]

AlignStart ==
    /\ al_x = 0
    /\ al_size = 1
    /\ al_call = NoAlign

AlignCeil(build) ==
    /\ al_call' = [fn |-> "align_ceil", build |-> build,
                   res |-> align_ceil(al_x, al_size, build),
                   ceil |-> align_ceil(al_x, al_size, build)]
    /\ UNCHANGED <<al_x, al_size>>
    /\ UNCHANGED notAlign

AlignCeilU64(build) ==
    /\ al_call' = [fn |-> "align_ceil_u64", build |-> build,
                   res |-> align_ceil_u64(al_x, al_size, build),
                   ceil |-> align_ceil(al_x, al_size, build)]
    /\ UNCHANGED <<al_x, al_size>>
    /\ UNCHANGED notAlign

AlignCeilChunk(build) ==
    /\ al_call' = [fn |-> "align_ceil_chunk", build |-> build,
                   res |-> align_ceil_chunk(al_x, al_size, build),
                   ceil |-> align_ceil(al_x, al_size, build)]
    /\ UNCHANGED <<al_x, al_size>>
    /\ UNCHANGED notAlign

AlignNext ==
    \/ \E build \in Builds : AlignCeil(build)
    \/ \E build \in Builds : AlignCeilU64(build)
    \/ \E build \in Builds : AlignCeilChunk(build)

-----------------------------------------------------------------------------
(* Little-endian codec: write::<T> and read::<T> for u8, u16, u32, u64 and  *)
(* u128 over a byte buffer, bytes being ByteBits bits wide                  *)

LeTypes == {"u8", "u16", "u32", "u64", "u128"}

\* mem::size_of::<T>()
SizeOf(t) ==
    CASE t = "u8" -> 1 [] t = "u16" -> 2 [] t = "u32" -> 4 [] t = "u64" -> 8
      [] t = "u128" -> 16

ByteVals == 0..(Pow2(ByteBits) - 1)
ValuesOf(t) == 0..(Pow2(ByteBits * SizeOf(t)) - 1)

\* a | b on bit patterns
BitOr(a, b) == a + b - BitAnd(a, b)

\* (n >> 8 * i) as u8
ByteOfUnshifted(n, i) == n % Pow2(ByteBits)

ByteOf(n, i) == (n \div Pow2(ByteBits * i)) % Pow2(ByteBits)

\* T::from(b) << 8 * i
Shifted(b, i) == b * Pow2(ByteBits * i)

\* write_le: into[i] = (self >> 8 * i) as u8 for each i below the size, in
\* order; the index past the end of a short buffer panics there
write_le(t, into, n) ==
    [i \in 1..Len(into) |-> IF i <= SizeOf(t) THEN ByteOf(n, i - 1) ELSE into[i]]

\* read_le: from[0] | from[1] << 8 | ...
RECURSIVE OrBytes(_, _)
OrBytes(from, k) ==
    IF k = 0 THEN 0
    ELSE BitOr(OrBytes(from, k - 1), Shifted(from[k], k - 1))

read_le(t, from) ==
    IF Len(from) < SizeOf(t) THEN Panic ELSE OrBytes(from, SizeOf(t))

\* the buffers a call is given: one byte longer than T with every byte the
\* same (the greatest byte alone for the wide types), or one byte too short
BuffersFor(t) ==
    IF SizeOf(t) <= 4
    THEN {[i \in 1..(SizeOf(t) + 1) |-> b] : b \in ByteVals}
             \cup {[i \in 1..(SizeOf(t) - 1) |-> 0]}
    ELSE {[i \in 1..(SizeOf(t) + 1) |-> Pow2(ByteBits) - 1]}

LeCall(op, before, res) == [op |-> op, before |-> before, res |-> res]

LeStart ==
    /\ le_type = "u8"
    /\ le_n = 0
    /\ le_buf = <<0, 0>>
    /\ le_call = LeCall("new", <<0, 0>>, 0)

\* write(buf, n)
LeWrite ==
    /\ le_call.op = "new"
    /\ le_buf' = write_le(le_type, le_buf, le_n)
    /\ le_call' = LeCall("write", le_buf,
                         IF Len(le_buf) < SizeOf(le_type) THEN Panic ELSE 0)
    /\ UNCHANGED <<le_type, le_n>>
    /\ UNCHANGED notLe

\* read::<T>(buf), on the buffer write filled
LeRead ==
    /\ le_call.op = "write" /\ le_call.res # Panic
    /\ le_call' = LeCall("read", le_buf, read_le(le_type, le_buf))
    /\ UNCHANGED <<le_type, le_n, le_buf>>
    /\ UNCHANGED notLe

LeNext ==
    \/ LeWrite
    \/ LeRead

-----------------------------------------------------------------------------
(* Positioned I/O: pread_exact and pwrite_all, one step for every call of   *)
(* read_at / write_at the loop makes                                        *)

PioOps == {"pread_exact", "pwrite_all"}

\* the failures of read_at / write_at other than Interrupted
PioErrors == {"PermissionDenied", "Other"}

\* what the loop answers when the underlying call transfers 0 bytes:
\* pread_exact breaks out with the buffer not empty, pwrite_all returns
ZeroIsDone(op) == "Ok"

AfterZero(op) == IF op = "pread_exact" THEN "UnexpectedEof" ELSE "WriteZero"

\* the bytes of the buffer still to transfer
PioLeft == pio.len - pio.done

PioIdle ==
    [pc |-> "idle", op |-> "pread_exact", off0 |-> 0, len |-> 0, off |-> 0,
     done |-> 0, intr |-> 0, under |-> "none", res |-> "none"]

PioStart ==
    /\ pio = PioIdle
    /\ pio_log = <<>>

\* the call: buf and offset are the arguments
PioCall(op, off, len) ==
    /\ pio.pc = "idle"
    /\ pio' = [pc |-> "loop", op |-> op, off0 |-> off, len |-> len, off |-> off,
               done |-> 0, intr |-> 0, under |-> "none", res |-> "none"]
    /\ pio_log' = <<>>
    /\ UNCHANGED notPio

\* Ok(n), n > 0: the offset and the buffer advance by n
PioTransfer(n) ==
    /\ pio.pc = "loop" /\ PioLeft > 0
    /\ n <= PioLeft
    /\ pio' = [pio EXCEPT !.off = @ + n, !.done = @ + n, !.under = "Ok"]
    /\ pio_log' = Append(pio_log, <<pio.off, n>>)
    /\ UNCHANGED notPio

\* Ok(0)
PioZero ==
    /\ pio.pc = "loop" /\ PioLeft > 0
    /\ pio' = [pio EXCEPT !.pc = "idle", !.under = "Zero",
                          !.res = AfterZero(pio.op)]
    /\ UNCHANGED pio_log
    /\ UNCHANGED notPio

\* Err(Interrupted): the loop goes round with buf and offset as they are
PioInterrupted ==
    /\ pio.pc = "loop" /\ PioLeft > 0
    /\ pio.intr < MaxIntr
    /\ pio' = [pio EXCEPT !.intr = @ + 1, !.under = "Interrupted"]
    /\ UNCHANGED pio_log
    /\ UNCHANGED notPio

\* Err(e), any other kind: returned as it is
PioError(e) ==
    /\ pio.pc = "loop" /\ PioLeft > 0
    /\ pio' = [pio EXCEPT !.pc = "idle", !.under = e, !.res = e]
    /\ UNCHANGED pio_log
    /\ UNCHANGED notPio

\* the buffer is empty: the loop is left and Ok(()) returned
PioFinish ==
    /\ pio.pc = "loop" /\ PioLeft = 0
    /\ pio' = [pio EXCEPT !.pc = "idle", !.res = "Ok"]
    /\ UNCHANGED pio_log
    /\ UNCHANGED notPio

\* one round of the loop, or its exit
PioLoop ==
    \/ \E n \in 1..MaxBuf : PioTransfer(n)
    \/ PioZero
    \/ PioInterrupted
    \/ \E e \in PioErrors : PioError(e)
    \/ PioFinish

PioNext ==
    \/ \E op \in PioOps, off \in 0..MaxOff, len \in 0..MaxBuf :
           PioCall(op, off, len)
    \/ \E n \in 1..MaxBuf : PioTransfer(n)
    \/ PioZero
    \/ PioInterrupted
    \/ \E e \in PioErrors : PioError(e)
    \/ PioFinish

-----------------------------------------------------------------------------
(* init_env: INIT.call_once(body) called from several threads               *)

Threads == {"t1", "t2", "t3"}

\* what call_once does with the closure in each state of the Once
CallOnceAlways(state) == "run"

CallOnce(state) ==
    CASE state = "new" -> "run"
      [] state = "running" -> "wait"
      [] state = "done" -> "skip"
      [] state = "poisoned" -> "panic"

EnvStart ==
    /\ once = "new"
    /\ ie_pc = [t \in Threads |-> "out"]
    /\ ie_calls = [t \in Threads |-> 0]
    /\ ie_runs = 0

\* thread t calls init_env and reaches INIT.call_once
IeEnter(t) ==
    /\ ie_pc[t] = "out" /\ ie_calls[t] < MaxInitCalls
    /\ ie_calls' = [ie_calls EXCEPT ![t] = @ + 1]
    /\ LET todo == CallOnce(once)
       IN  /\ ie_pc' = [ie_pc EXCEPT ![t] =
                           CASE todo = "run" -> "body"
                             [] todo = "wait" -> "waiting"
                             [] todo = "skip" -> "returned"
                             [] todo = "panic" -> "panicked"]
           /\ once' = IF todo = "run" THEN "running" ELSE once
           /\ ie_runs' = IF todo = "run" THEN ie_runs + 1 ELSE ie_runs
    /\ UNCHANGED notEnv

\* the body ends: the logger is set up (a failure of try_init is dropped) and
\* Crypto::init returned Ok
IeBodyDone(t) ==
    /\ ie_pc[t] = "body"
    /\ once' = "done"
    /\ ie_pc' = [ie_pc EXCEPT ![t] = "returned"]
    /\ UNCHANGED <<ie_calls, ie_runs>>
    /\ UNCHANGED notEnv

\* Crypto::init returned Err: expect panics inside the closure
IeBodyPanic(t) ==
    /\ ie_pc[t] = "body"
    /\ once' = "poisoned"
    /\ ie_pc' = [ie_pc EXCEPT ![t] = "panicked"]
    /\ UNCHANGED <<ie_calls, ie_runs>>
    /\ UNCHANGED notEnv

\* a thread blocked in call_once goes on when the running closure has ended
IeWake(t) ==
    /\ ie_pc[t] = "waiting" /\ once \in {"done", "poisoned"}
    /\ ie_pc' = [ie_pc EXCEPT ![t] =
                    IF once = "done" THEN "returned" ELSE "panicked"]
    /\ UNCHANGED <<once, ie_calls, ie_runs>>
    /\ UNCHANGED notEnv

\* init_env has returned and the thread goes on
IeLeave(t) ==
    /\ ie_pc[t] = "returned"
    /\ ie_pc' = [ie_pc EXCEPT ![t] = "out"]
    /\ UNCHANGED <<once, ie_calls, ie_runs>>
    /\ UNCHANGED notEnv

EnvNext ==
    \/ \E t \in Threads : IeEnter(t)
    \/ \E t \in Threads : IeBodyDone(t)
    \/ \E t \in Threads : IeBodyPanic(t)
    \/ \E t \in Threads : IeWake(t)
    \/ \E t \in Threads : IeLeave(t)

-----------------------------------------------------------------------------
(* Storage::remove_address_blocks: the walk over the spans of an address    *)
(* that deletes their blocks and drops the cached frames                    *)

\* the depot block ids an address may name
FrameBlks == 0 .. (MaxFrameBlks - 1)

\* the spans within those block ids
WalkSpans ==
    {sp \in [begin : FrameBlks, cnt : 1..MaxWalkCnt] :
        sp.begin + sp.cnt <= MaxFrameBlks}

\* the addresses: up to MaxSpans spans, no block in two of them
WalkAddrs ==
    {a \in UNION {[1..n -> WalkSpans] : n \in 0..MaxSpans} :
        \A i, j \in 1..Len(a) :
            i # j => SpanBlocks(a[i]) \cap SpanBlocks(a[j]) = {}}

\* a walk that goes to the end of the span in one step
WalkStepWholeSpan(inaddr_idx, end_idx) == end_idx - inaddr_idx

\* step = min(end_idx - inaddr_idx, BLKS_PER_FRAME - offset)
WalkStep(inaddr_idx, end_idx) ==
    LET offset == inaddr_idx % BLKS_PER_FRAME
        rest == end_idx - inaddr_idx
    IN  IF rest <= BLKS_PER_FRAME - offset THEN rest ELSE BLKS_PER_FRAME - offset

NoWalk ==
    [pc |-> "idle", addr |-> <<>>, span |-> 1, inaddr_idx |-> 0, blk_idx |-> 0,
     end_idx |-> 0, res |-> "none"]

FramesStart ==
    /\ rab = NoWalk
    /\ rab_blks = FrameBlks
    /\ frame_cache = {}

\* remove_address_blocks(addr) is called: let mut inaddr_idx = 0
RabCall(addr) ==
    /\ rab = NoWalk
    /\ AddrBlocks(addr) \subseteq rab_blks
    /\ rab' = [NoWalk EXCEPT !.pc = "span", !.addr = addr]
    /\ UNCHANGED <<rab_blks, frame_cache>>
    /\ UNCHANGED notFrames

\* for loc_span in addr.iter(): depot.del_blocks(loc_span.span)?, then
\* blk_idx = span.begin and end_idx = inaddr_idx + blk_cnt
RabDelBlocks ==
    /\ rab.pc = "span"
    /\ rab.span <= Len(rab.addr)
    /\ LET sp == rab.addr[rab.span] IN
        \/ /\ rab_blks' = rab_blks \ SpanBlocks(sp)
           /\ rab' = [rab EXCEPT !.pc = "walk", !.blk_idx = sp.begin,
                                 !.end_idx = rab.inaddr_idx + sp.cnt]
        \/ /\ rab' = [rab EXCEPT !.pc = "idle", !.res = "Err"]
           /\ UNCHANGED rab_blks
    /\ UNCHANGED frame_cache
    /\ UNCHANGED notFrames

\* one iteration of while inaddr_idx < end_idx
RabWalk ==
    /\ rab.pc = "walk"
    /\ rab.inaddr_idx < rab.end_idx
    /\ LET offset == rab.inaddr_idx % BLKS_PER_FRAME
           step == WalkStep(rab.inaddr_idx, rab.end_idx)
       IN  /\ frame_cache' =
                  IF offset = 0 THEN frame_cache \ {rab.blk_idx} ELSE frame_cache
           /\ rab' = [rab EXCEPT !.inaddr_idx = @ + step, !.blk_idx = @ + step]
    /\ UNCHANGED rab_blks
    /\ UNCHANGED notFrames

\* the while loop ends: on to the next loc_span
RabNextSpan ==
    /\ rab.pc = "walk"
    /\ rab.inaddr_idx >= rab.end_idx
    /\ rab' = [rab EXCEPT !.pc = "span", !.span = @ + 1]
    /\ UNCHANGED <<rab_blks, frame_cache>>
    /\ UNCHANGED notFrames

\* the for loop ends: Ok(())
RabReturn ==
    /\ rab.pc = "span"
    /\ rab.span > Len(rab.addr)
    /\ rab' = [rab EXCEPT !.pc = "idle", !.res = "Ok"]
    /\ UNCHANGED <<rab_blks, frame_cache>>
    /\ UNCHANGED notFrames

\* the steps of a call that is running
RabLoop == RabDelBlocks \/ RabWalk \/ RabNextSpan \/ RabReturn

FramesNext ==
    \/ \E addr \in WalkAddrs : RabCall(addr)
    \/ RabLoop

-----------------------------------------------------------------------------
(* Claims about Storage *)

\* every block of the address the depot holds for id is in the depot
AddrPresent(id) == AddrBlocks(depot_addr[id]) \subseteq depot_blks

WnaPcs == {"wna_get", "wna_remove", "wna_put"}

\* a step of write_new_address that deletes blocks finds the new address
\* already in the depot, and keeps the depot's address for id backed by blocks
C1_Step ==
    st_pc \in WnaPcs =>
        /\ (depot_blks' # depot_blks => depot_addr[st_id] = st_new)
        /\ (AddrPresent(st_id) => (AddrPresent(st_id))')

\* C1: write_new_address releases the blocks of the old address only after
\* the depot holds the new address, so no step of it (and no crash or depot
\* error in it) leaves the depot with an address for id whose blocks are gone.
C1_ReleaseOldAfterNewWritten ==
    [][C1_Step]_vars

\* what Storage::get_address(id) returns: the cached address, else the depot's
RetrievableAddr(id) ==
    IF addr_cache[id] # NoAddr THEN addr_cache[id] ELSE depot_addr[id]

\* C3: after any sequence of write_new_address and del calls, failed ones
\* included, every address get_address still returns has all its blocks in
\* the depot.
C3_RetrievableAddressHasBlocks ==
    st_pc = "idle" =>
        \A id \in Eids : AddrBlocks(RetrievableAddr(id)) \subseteq depot_blks


\* every address the cache holds is the one the depot stores for its id; an
\* id the depot has no address for is not in the cache
CacheCoherent ==
    \A id \in Eids : addr_cache[id] # NoAddr => addr_cache[id] = depot_addr[id]

\* get_address runs with id neither in the cache nor in the depot
GetMisses ==
    /\ st_pc \in {"wna_get", "del_get"}
    /\ addr_cache[st_id] = NoAddr
    /\ depot_addr[st_id] = NoAddr

\* a get_address that misses hands its caller no address and inserts nothing,
\* as long as the process lives: write_new_address goes on to put_address or
\* returns the error, del returns Ok(()) or the error
MissStep ==
    GetMisses /\ st_ret' # "crash" =>
        /\ addr_cache' = addr_cache
        /\ st_pc' \in {"wna_put", "idle"}
        /\ st_pc' = "wna_put" => st_pc = "wna_get" /\ st_ret' = st_ret
        /\ st_pc' = "idle" /\ st_pc = "del_get" => st_ret' \in {"Ok", "Err"}
        /\ st_pc' = "idle" /\ st_pc = "wna_get" => st_ret' = "Err"

\* C36: address cache coherence. After any sequence of get_address,
\* put_address, write_new_address and del calls, calls that fail at a depot
\* step included, every address in addr_cache for an id is the address the
\* depot stores for that id, and no id deleted from the depot is still in the
\* cache; a get_address that misses in the depot returns NotFound and inserts
\* nothing into the cache.
C36_AddrCacheCoherent ==
    []CacheCoherent /\ [][MissStep]_vars

\* a call failed at a depot step while the cache holds the depot's address of
\* one id and nothing for the other, which the depot has no address for
C36_Witness ==
    /\ st_pc = "idle"
    /\ st_ret = "Err"
    /\ addr_cache[st_id] # NoAddr
    /\ addr_cache[st_id] = depot_addr[st_id]
    /\ \E id \in Eids \ {st_id} :
           /\ depot_addr[id] = NoAddr
           /\ addr_cache[id] = NoAddr
           /\ watermark > Len(addr_cache[st_id])

-----------------------------------------------------------------------------
(* Claims about Armor *)

\* the greatest sequence of a valid stored copy, 0 when there is none
MaxStoredSeq(store) ==
    LET seqs == {store[a].seq : a \in {b \in Arms : store[b].st = "ok"}} \cup {0}
    IN  CHOOSE n \in seqs : \A k \in seqs : k <= n

\* the two arms never carry the same sequence, and once a payload has been
\* saved a load returns the previous or the new one
C4_Inv ==
    /\ (arm_store["Left"].st = "ok" /\ arm_store["Right"].st = "ok")
          => arm_store["Left"].seq # arm_store["Right"].seq
    /\ ar_prev # 0 =>
          /\ LoadItem(arm_store).ok
          /\ LoadItem(arm_store).item.val \in {ar_prev, ar_new}

\* a depot write of a save (also one cut by a crash) goes to the arm that is
\* not the current one, with the next sequence; a finished save makes that
\* arm and sequence current
C4_Step ==
    /\ \A a \in Arms :
          arm_store'[a] # arm_store[a] =>
             /\ a # item.arm
             /\ arm_store'[a].st = "ok" =>
                   /\ arm_store'[a].seq = MaxStoredSeq(arm_store) + 1
                   /\ arm_store'[a].arm = a
    /\ (ar_pc = "written" /\ ar_pc' = "idle") =>
          /\ item'.arm # item.arm
          /\ item'.seq = item.seq + 1
          /\ arm_store'[item'.arm] = OkCopy(item')
          /\ MaxStoredSeq(arm_store') = item'.seq

\* C4: every save writes the arm opposite to the current one with
\* seq = max(left.seq, right.seq) + 1 and then makes it current; the stored
\* sequence grows by one per save, the arms never share a sequence, and a
\* crash or failure inside a save leaves the previous copy loadable.
C4_SaveAlternatesArms == []C4_Inv /\ [][C4_Step]_vars

\* a crash tore the arm being written and the load that followed returned
\* the copy saved before
C4_Witness ==
    /\ ar_ret = "Loaded"
    /\ item.seq >= 2
    /\ \E a \in Arms : arm_store[a].st = "bad"
    /\ item.val = ar_prev /\ ar_new # ar_prev

\* C5: a load returns the copy with the greater valid sequence, Left on a
\* tie, the other arm when one is missing or fails its MAC, and Corrupted
\* only when neither arm is readable.
C5_LoadPicksGreaterSeq ==
    LET l == arm_store["Left"]
        r == arm_store["Right"]
        lv == l.st = "ok"
        rv == r.st = "ok"
    IN  ar_ret \in {"Loaded", "Corrupted"} =>
          /\ (ar_ret = "Corrupted") <=> (~lv /\ ~rv)
          /\ (lv /\ rv /\ l.seq > r.seq) => item = CopyItem(l)
          /\ (lv /\ rv /\ r.seq > l.seq) => item = CopyItem(r)
          /\ (lv /\ rv /\ l.seq = r.seq) => item = CopyItem(l)
          /\ (lv /\ ~rv) => item = CopyItem(l)
          /\ (rv /\ ~lv) => item = CopyItem(r)

\* both arms valid with equal sequences and different payloads: Left loaded
C5_Witness ==
    /\ ar_ret = "Loaded"
    /\ arm_store["Left"].st = "ok" /\ arm_store["Right"].st = "ok"
    /\ arm_store["Left"].seq = arm_store["Right"].seq
    /\ arm_store["Left"].val # arm_store["Right"].val
    /\ item.arm = "Left"

-----------------------------------------------------------------------------
(* Claims about the transaction manager *)

HistStates == {hist[i] : i \in 1..Len(hist)}

C2_Step == tx_phase = "down" /\ tx_phase' = "idle" => published' \in HistStates

\* C2: after a crash at any point, re-opening the volume yields exactly the
\* state produced by some prefix of the transactions whose Commit marker was
\* durable, in commit order: each of them wholly applied or wholly absent.
C2_ReopenYieldsCommittedPrefix == [][C2_Step]_vars

C6_Step ==
    /\ published' # published /\ tx_phase = "swapping" => sb.root = tx_id
    /\ reader_seen' # reader_seen =>
           reader_seen' \in {tx_pre, Apply(tx_pre, tx_staged)}

\* C6: a committing transaction's entities are swapped into the published
\* maps only after the super-block has advanced to its root, and a reader
\* sees the state before the transaction or the state after it, never a mix.
C6_PublishAfterSuperBlockAdvance == [][C6_Step]_vars

C7_Step ==
    /\ wal'.mark = "aborted" /\ wal.mark # "aborted" =>
           /\ wal.mark = "open"
           /\ pay_buf' = {} /\ pay_dur' = {}
           /\ published' = tx_pre /\ published' = published
           /\ RecoverRoot(wal', sb', pay_dur').map = tx_pre
    /\ wal.mark = "commit" => wal'.mark # "aborted"

\* C7: aborting a transaction before its Commit marker is durable releases
\* every block and address it staged and leaves the published state, and the
\* state a re-open would recover, as they were when the transaction began;
\* once the Commit marker is durable the transaction cannot be aborted.
C7_AbortRestoresState ==
    /\ [](wal.mark = "commit" => ~ENABLED TxAbort)
    /\ [][C7_Step]_vars

\* a transaction that staged both entities over a non-empty published state
\* has been aborted
C7_Witness ==
    /\ wal.mark = "aborted"
    /\ \A e \in Ents : wal.recs[e] # 0
    /\ published # NoneStaged
    /\ tx_phase = "idle"

-----------------------------------------------------------------------------
(* Claims about Repo *)

EntryPoints ==
    {"info", "reset_password", "path_exists", "is_file", "is_dir", "create_file",
     "open_file", "open", "create_dir", "create_dir_all", "read_dir", "metadata",
     "history", "copy", "remove_file", "remove_dir", "remove_dir_all", "rename"}

CalledWhenClosed == last.op \in EntryPoints /\ last.was = "closed"

\* C8 as stated: on a closed repository every entry point returns
\* Err(Closed), whatever its arguments and options, and does not reach the
\* file system.
C8_ClosedEveryEntryPoint ==
    CalledWhenClosed => last.res = "Closed" /\ ~last.access /\ ~last.changed

\* C8, amended: on a closed repository every entry point returns Err(Closed)
\* without reaching the file system, except OpenOptions.open with a version
\* limit of 0, which returns Err(InvalidArgument), also without reaching it.
C8_ClosedUnlessZeroVersionLimit ==
    CalledWhenClosed =>
        /\ ~last.access /\ ~last.changed
        /\ last.res = IF last.op = "open" /\ last.opts.version_limit = 0
                         THEN "InvalidArgument" ELSE "Closed"

\* OpenOptions.open with version_limit(0) was called on a closed repository
C8_Witness ==
    /\ CalledWhenClosed
    /\ last.op = "open"
    /\ last.opts.version_limit = 0
    /\ last.res = "InvalidArgument"

\* C9: close on a closed repository returns Ok(()) and leaves it closed, and
\* after a close call the repository is closed whether Fs.close succeeded or
\* failed.
C9_CloseIdempotent ==
    /\ last.op = "close" => repo_fs = "closed"
    /\ last.op = "close" /\ last.was = "closed" => last.res = "Ok" /\ ~last.access
    /\ fs_close_res # "none" => repo_fs = "closed"

\* a second close returned Ok after the first one's Fs.close had failed
C9_Witness ==
    /\ last.op = "close"
    /\ last.was = "closed"
    /\ last.res = "Ok"
    /\ fs_close_res = "Err"
    /\ repo_fs = "closed"

AnyMutatingFlag(o) == \E f \in {"write", "append", "truncate", "create", "create_new"} : o[f]

OpenedReadOnly == last.op = "open" /\ last.was = "open" /\ fs_ro

\* C10 as stated: on a read-only repository OpenOptions.open with a mutating
\* flag returns Err(ReadOnly) for every path, before resolving it and without
\* changing any fnode; only an open with no such flag can succeed.
C10_ReadOnlyRefusesMutatingOpen ==
    /\ OpenedReadOnly /\ AnyMutatingFlag(last.opts) =>
           last.res = "ReadOnly" /\ ~last.resolved /\ ~last.changed
    /\ OpenedReadOnly /\ last.res = "Ok" => ~AnyMutatingFlag(last.opts)

\* C10, amended: such an open returns Err(ReadOnly), or Err(InvalidArgument)
\* when the version limit is 0, in both cases before the path is resolved and
\* without changing any fnode; only an open with no mutating flag can succeed.
C10_ReadOnlyUnlessZeroVersionLimit ==
    /\ OpenedReadOnly /\ AnyMutatingFlag(last.opts) =>
           /\ last.res = IF last.opts.version_limit = 0
                            THEN "InvalidArgument" ELSE "ReadOnly"
           /\ ~last.resolved /\ ~last.changed
    /\ OpenedReadOnly /\ last.res = "Ok" => ~AnyMutatingFlag(last.opts)

\* an open with append and truncate and no write flag was refused on a
\* read-only repository whose file has content
C10_Witness ==
    /\ OpenedReadOnly
    /\ last.opts.append /\ last.opts.truncate /\ ~last.opts.write
    /\ last.res = "ReadOnly"
    /\ fs_node.kind = "file" /\ fs_node.len > 0

\* OpenOptions.open was called on an open repository that is not read-only
OpenedWritable == last.op = "open" /\ last.was = "open" /\ ~fs_ro

C18_CreateFileEmptyAndWritable ==
    last.op = "create_file" /\ last.was = "open" /\ ~fs_ro /\ last.res = "Ok" =>
        /\ fs_node = FileNode(0)
        /\ last.handle.write
        /\ last.at \in {"none", "file"}

\* create_file returned Ok for a file that had content, which it truncated
C18_Witness ==
    /\ last.op = "create_file" /\ last.was = "open" /\ ~fs_ro
    /\ last.res = "Ok"
    /\ last.at = "file" /\ last.changed
    /\ fs_node = FileNode(0)
    /\ last.handle.write

\* this step is a call of OpenOptions.open, directly or through create_file
\* or open_file
OpenStep == last = NoCall /\ last'.op \in {"open", "create_file", "open_file"}

\* this step creates the file
CreateStep == OpenStep /\ last'.at = "none" /\ fs_node'.kind = "file"

C19_Step ==
    /\ CreateStep =>
           /\ fnode_opts'.version_limit =
                  IF last'.opts.version_limit # NoLimit
                     THEN last'.opts.version_limit ELSE fs_opts.version_limit
           /\ fnode_opts'.dedup_chunk =
                  CASE last'.opts.dedup_chunk = "Some(true)" -> TRUE
                    [] last'.opts.dedup_chunk = "Some(false)" -> FALSE
                    [] OTHER -> fs_opts.dedup_chunk
    /\ OpenStep /\ ~CreateStep => fnode_opts' = fnode_opts
    /\ OpenStep => fs_opts' = fs_opts

\* C19: a file created through OpenOptions.open gets as version_limit and as
\* dedup_chunk the value set on the OpenOptions when one was set and the
\* repository's default otherwise, each of the two independently; opening a
\* file that exists never changes its options, whatever the OpenOptions hold.
C19_CreatedFileOptions == [][C19_Step]_vars

\* a file was created with version_limit(1) and no dedup_chunk in a
\* repository whose defaults are a version limit of 10 and no deduplication:
\* it has the version limit 1 and no deduplication
C19_Witness ==
    /\ last.op = "open" /\ last.at = "none" /\ last.res = "Ok"
    /\ last.opts.version_limit = 1 /\ last.opts.dedup_chunk = "None"
    /\ fs_opts = [version_limit |-> DEFAULT_VERSION_LIMIT, dedup_chunk |-> FALSE]
    /\ fnode_opts = [version_limit |-> 1, dedup_chunk |-> FALSE]
    /\ fs_node.kind = "file"

\* OpenOptions.open was called on an open repository with a path that
\* resolves to a directory
OpenedDirectory ==
    last.op = "open" /\ last.was = "open" /\ last.at = "dir"

\* the options of the last call hold a flag a read-only Fs refuses
LastMutates ==
    \/ last.opts.write
    \/ last.opts.append
    \/ last.opts.truncate
    \/ last.opts.create
    \/ last.opts.create_new

OpenedFile == last.op = "open" /\ last.res = "Ok"

\* C35: a file handle returned by OpenOptions.open starts at position 0
\* unless append is set, in which case it starts at the file's current
\* length; for every combination of options, append together with truncate
\* included, its position is not greater than the length the file has when
\* open returns.
C35_InitialPositionWithinLength ==
    OpenedFile =>
        /\ ~last.opts.append => last.handle.pos = 0
        /\ last.opts.append /\ ~last.changed => last.handle.pos = fs_node.len
        /\ last.handle.pos <= fs_node.len

\* the part of C35 that holds: the position is 0 without append, and with
\* append it is the length the file had when it was opened, which is its
\* length when open returns unless truncate cut it to 0
C35_InitialPositionAsComputed ==
    OpenedFile =>
        /\ ~last.opts.append => last.handle.pos = 0
        /\ last.opts.append /\ ~last.changed => last.handle.pos = fs_node.len
        /\ last.handle.pos > fs_node.len =>
               /\ last.opts.append /\ last.opts.truncate
               /\ last.changed
               /\ fs_node = FileNode(0)

\* an open with append and truncate of a file that had content returned a
\* handle placed past the end of the now empty file
C35_AppendTruncatePastEnd ==
    /\ OpenedFile
    /\ last.opts.append /\ last.opts.truncate
    /\ last.at = "file"
    /\ fs_node = FileNode(0)
    /\ last.handle.pos > 0

-----------------------------------------------------------------------------
(* Claims about RepoOpener *)

OpenCalled == opened.res # "none"

\* C11: for every RepoOpener the setters can build, open returns
\* Err(InvalidArgument) whenever read_only is set together with create or
\* create_new, and then neither opens nor creates a repository.
C11_ReadOnlyWithCreateRefused ==
    OpenCalled /\ opened.by.read_only /\ (opened.by.create \/ opened.by.create_new) =>
        opened.res = "InvalidArgument" /\ opened.act = "none"

\* C12: when create_new is set, whatever setters were called before, open on
\* a URI where a repository exists returns Err(AlreadyExists) and never opens
\* the existing repository.
C12_CreateNewNeverOpensExisting ==
    OpenCalled /\ opened.by.create_new /\ opened.exists = "true" =>
        opened.res = "AlreadyExists" /\ opened.act # "open"

\* the opener passes the validation of open
OpenerValid(o) == o.version_limit # 0 /\ ~(o.create /\ o.read_only)

C14_ZeroVersionLimitRejected ==
    /\ OpenCalled /\ opened.by.version_limit = 0 =>
           /\ opened.res = "InvalidArgument"
           /\ opened.act = "none" /\ opened.depot = "none"
    /\ OpenCalled /\ opened.by.version_limit \in 1..U8Max
           /\ opened.res = "InvalidArgument" =>
           opened.by.create /\ opened.by.read_only
    /\ last.op = "open" /\ last.opts.version_limit = 0 =>
           /\ last.res = "InvalidArgument"
           /\ ~last.access /\ ~last.resolved /\ ~last.changed
    /\ last.op = "open" /\ last.opts.version_limit \in 1..U8Max =>
           last.res # "InvalidArgument"

\* both opens were given a version limit of 0 together with create, where
\* nothing existed, and both were refused; nothing was created
C14_Witness ==
    /\ opened.by.version_limit = 0 /\ opened.by.create
    /\ opened.exists = "false" /\ opened.uri \notin repos
    /\ opened.res = "InvalidArgument"
    /\ last.op = "open" /\ last.opts.version_limit = 0 /\ last.opts.create
    /\ last.at = "none" /\ fs_node.kind = "none"
    /\ last.res = "InvalidArgument"

\* both opens were given the largest version limit, 255, and succeeded
C14_WitnessMax ==
    /\ opened.by.version_limit = U8Max /\ opened.res = "Ok"
    /\ last.op = "open" /\ last.opts.version_limit = U8Max /\ last.res = "Ok"

\* C15: the storage layer accepts the schemes file:// and mem://; a mem://
\* URI selects the volatile depot, which never reports an existing
\* repository, so that open on it reaches creation with create set and fails
\* without; a URI of any other scheme is rejected with Err(InvalidUri).
C15_FileAndMemAccepted ==
    OpenCalled /\ OpenerValid(opened.by) =>
        /\ opened.uri[1] \in {"file", "mem"} =>
               opened.res # "InvalidUri" /\ opened.exists # "InvalidUri"
        /\ opened.uri[1] = "mem" =>
               /\ opened.exists = "false"
               /\ opened.by.create => opened.act = "create" /\ opened.depot = "mem"
               /\ ~opened.by.create => opened.res # "Ok"
        /\ opened.uri[1] \notin {"file", "mem"} => opened.res = "InvalidUri"

-----------------------------------------------------------------------------
(* Claims about the OpenOptions setters *)

\* the setter calls made on OpenOptions::new() so far are exactly cs
OoCalled(cs) == oo_calls = cs

\* C16: starting from OpenOptions::new(), write(true).append(true) gives the
\* same options as append(true) alone, write(true).truncate(true) the same
\* as truncate(true) alone, create(true) implies write, and create_new(true)
\* implies create and write.
C16_SetterImplications ==
    /\ OoCalled(<<<<"write", 1>>, <<"append", 1>>>>) \/ OoCalled(<<<<"append", 1>>>>) =>
           oo = [OpenOptionsNew EXCEPT !.write = TRUE, !.append = TRUE]
    /\ OoCalled(<<<<"write", 1>>, <<"truncate", 1>>>>) \/ OoCalled(<<<<"truncate", 1>>>>) =>
           oo = [OpenOptionsNew EXCEPT !.write = TRUE, !.truncate = TRUE]
    /\ OoCalled(<<<<"create", 1>>>>) => oo.create /\ oo.write
    /\ OoCalled(<<<<"create_new", 1>>>>) => oo.create_new /\ oo.create /\ oo.write

\* write(true).append(true) was called on new options
C16_Witness ==
    /\ OoCalled(<<<<"write", 1>>, <<"append", 1>>>>)
    /\ oo.write /\ oo.append /\ ~oo.truncate /\ ~oo.create

\* the flags that stand for others carry them in the options o
Implied(o) ==
    /\ o.append => o.write
    /\ o.truncate => o.write
    /\ o.create => o.write
    /\ o.create_new => o.create /\ o.write

\* the setter calls made so far
CallsMade == {oo_calls[i] : i \in 1..Len(oo_calls)}

\* the latest setter call
LatestCall == oo_calls[Len(oo_calls)]

\* C34 as stated: in every OpenOptions state reachable from
\* OpenOptions::new() by calls of read, write, append, truncate, create and
\* create_new with any boolean arguments, append implies write, truncate
\* implies write, create implies write and create_new implies create and
\* write.
C34_FlagImplications == Implied(oo)

\* C34, amended: the implications hold in every state reached without a
\* write(false) or a create(false), and right after append(true),
\* truncate(true), create(true) or create_new(true) the flag set and the flags
\* it stands for are all set. write(false) and create(false) lower their own
\* flag alone, whatever flags depend on it.
C34_FlagImplicationsUnlessLowered ==
    /\ CallsMade \cap {<<"write", 0>>, <<"create", 0>>} = {} => Implied(oo)
    /\ oo_calls # <<>> =>
        /\ LatestCall = <<"append", 1>> => oo.append /\ oo.write
        /\ LatestCall = <<"truncate", 1>> => oo.truncate /\ oo.write
        /\ LatestCall = <<"create", 1>> => oo.create /\ oo.write
        /\ LatestCall = <<"create_new", 1>> =>
               oo.create_new /\ oo.create /\ oo.write
        /\ LatestCall = <<"write", 0>> => ~oo.write
        /\ LatestCall = <<"create", 0>> => ~oo.create

\* create_new(true), truncate(false) and append(true) were called on new
\* options: every flag but truncate is set
C34_Witness ==
    /\ OoCalled(<<<<"create_new", 1>>, <<"truncate", 0>>, <<"append", 1>>>>)
    /\ oo.create_new /\ oo.create /\ oo.append /\ oo.write /\ ~oo.truncate

-----------------------------------------------------------------------------
(* Claims about the depot index *)

\* what get_address answers for every id: an address, or 0 for NotFound
IndexView == [id \in Eids |-> IndexGet(id)]

C20_Step ==
    /\ idx_last'.op = "put" =>
           IndexView' = [IndexView EXCEPT ![idx_last'.id] = idx_last'.val]
    /\ idx_last'.op = "del" =>
           IndexView' = [IndexView EXCEPT ![idx_last'.id] = 0]
    /\ idx_last'.op = "get" =>
           /\ IndexView' = IndexView
           /\ idx_last'.val = IndexView[idx_last'.id]
           /\ idx_last'.res = IF IndexView[idx_last'.id] = 0 THEN "NotFound" ELSE "Ok"
    /\ idx_last'.op = "flush" => IndexView' = IndexView
    /\ idx_last'.op = "reopen" /\ idx_last.op = "flush" => IndexView' = IndexView

\* C20: after put_address(id, A), get_address(id) returns A, the latest value
\* put for id; del_address(id) makes get_address(id) return NotFound and
\* leaves the address of every other id as it was; after flush() and a
\* re-open of the depot the same addresses are present and the deleted ones
\* are still NotFound.
C20_AddressRoundTrip == [][C20_Step]_vars

\* the depot was flushed and then opened again, and holds no address for e1
\* and the address last put for e2
C20_Witness ==
    /\ idx_last.op = "reopen" /\ idx_last.prev = "flush"
    /\ idx_buf = [id \in Eids |-> Clean]
    /\ IndexGet("e1") = 0
    /\ IndexGet("e2") = MaxAddr

-----------------------------------------------------------------------------
(* Claims about FileStorage *)

\* the WAL record of every id but the one the call was given is as before
OtherWalsKept == \A e \in Eids \ {fst_last'.id} : fst_wal'[e] = fst_wal[e]

C21_Step ==
    /\ fst_last'.op = "put_wal" =>
           /\ OtherWalsKept
           /\ fst_last'.res = "Ok" => fst_wal'[fst_last'.id] = fst_last'.val
    /\ fst_last'.op = "get_wal" =>
           /\ fst_wal' = fst_wal
           /\ fst_last'.res = IF fst_wal[fst_last'.id] = NoFile THEN "NotFound" ELSE "Ok"
           /\ fst_last'.res = "Ok" => fst_last'.val = fst_wal[fst_last'.id]
    /\ fst_last'.op = "del_wal" =>
           /\ OtherWalsKept
           /\ fst_last'.res = "Ok" => fst_wal'[fst_last'.id] = NoFile
           /\ fst_wal[fst_last'.id] = NoFile => fst_last'.res = "Ok"
    /\ fst_last'.op = "reopen" => fst_wal' = fst_wal

\* C21: after put_wal(id, W), get_wal(id) returns W; del_wal(id) makes
\* get_wal(id) return NotFound while the WAL record of every other id stays
\* readable; del_wal of an id with no record succeeds; put and delete are
\* persistent across a re-open of the depot without any flush.
C21_WalRoundTrip == [][C21_Step]_vars

\* the depot was opened again and holds the record put for e2 and none for e1
C21_Witness ==
    /\ fst_last.op = "reopen"
    /\ fst_base = "init"
    /\ fst_wal["e1"] = NoFile
    /\ fst_wal["e2"] = MaxWal

\* C25: the depot's exists() returns true if and only if init has completed
\* at its location: false before init, true after it, not true for a
\* location that is there but was never initialized; an error other than
\* not-found is returned as an error.
C25_ExistsIffInitialized ==
    fst_last.op = "exists" =>
        /\ fst_last.res = "true" <=> fst_base = "init"
        /\ fst_base = "none" => fst_last.res = "false"
        /\ fst_base = "unreadable" => fst_last.res = "Err"

-----------------------------------------------------------------------------
(* Claims about the sectors *)

\* the blocks this step's call was not given
OutsideSpan == {b \in BlockIds : ~InSpan(b, sec_last'.span)}

\* a block outside the span is as readable as it was, with the same content
OutsideKept ==
    \A b \in OutsideSpan :
        /\ sec_blk'[b] = sec_blk[b]
        /\ Readable(b)' <=> Readable(b)

C22_Step ==
    /\ sec_last'.op = "put" =>
           /\ \A b \in BlockIds \ OutsideSpan : Readable(b)'
           /\ SpanContent(sec_blk', sec_last'.span) = sec_last'.val
           /\ OutsideKept
    /\ sec_last'.op = "get" =>
           /\ sec_blk' = sec_blk /\ sec_size' = sec_size
           /\ sec_last'.res = "Ok" =>
                  /\ sec_last'.val = SpanContent(sec_blk, sec_last'.span)
                  /\ \A i \in 1..sec_last'.span.cnt : sec_last'.val[i] \in BlkVals
           /\ (\E b \in BlockIds \ OutsideSpan : sec_blk[b] = DelBlk) =>
                  sec_last'.res = "NotFound"
           /\ (\A b \in BlockIds \ OutsideSpan : Readable(b)) => sec_last'.res = "Ok"
    /\ sec_last'.op = "del" =>
           /\ \A b \in BlockIds \ OutsideSpan : ~Readable(b)'
           /\ OutsideKept
    /\ sec_last'.op = "reopen" => sec_blk' = sec_blk /\ sec_size' = sec_size

\* C22: get_blocks(span) returns exactly the bytes last written by
\* put_blocks for every block of the span; after del_blocks of a sub-range,
\* get_blocks of any span that contains a deleted block returns NotFound,
\* also when the span's first and last blocks are still there, while every
\* block outside the deleted range stays readable with its content
\* unchanged, also after the depot is opened again.
C22_BlocksRoundTrip == [][C22_Step]_vars

\* get_blocks of three blocks returned NotFound: the middle one was deleted,
\* the first and the last are readable
C22_Witness ==
    /\ sec_last.op = "get" /\ sec_last.res = "NotFound"
    /\ sec_last.span = [begin |-> 0, cnt |-> 3]
    /\ Readable(0) /\ sec_blk[1] = DelBlk /\ Readable(2)

\* the tail block of a sector file: the last block the file holds
TailOf(s) == s * SectorBlks + sec_size[s] - 1

C23_Step ==
    sec_last'.op = "del" =>
        \A s \in Sectors :
            /\ sec_size[s] # NoFile /\ SectorFull(sec_blk', s) /\ AllDeleted(sec_blk', s) =>
                   sec_size'[s] = NoFile
            /\ sec_size[s] # NoFile /\ ~SectorFull(sec_blk', s) => sec_size'[s] # NoFile
            /\ sec_size[s] > 0 /\ ~InSpan(TailOf(s), sec_last'.span)
                   /\ sec_size'[s] # NoFile =>
                   sec_size'[s] = sec_size[s]
            /\ sec_size[s] # NoFile /\ sec_size'[s] # NoFile =>
                   /\ sec_size'[s] <= sec_size[s]
                   /\ \A k \in sec_size'[s]..(sec_size[s] - 1) :
                          sec_blk'[s * SectorBlks + k] = DelBlk
            /\ sec_size[s] = NoFile => sec_size'[s] = NoFile

-----------------------------------------------------------------------------
(* Claims about the depot as a whole *)

\* this step is a crash of the process followed by a re-open of the depot
CrashStep ==
    fst_last'.op = "reopen" /\ idx_last'.op = "reopen" /\ sec_last'.op = "reopen"

C24_Step ==
    CrashStep =>
        /\ fst_sb' = fst_sb
        /\ fst_wal' = fst_wal
        /\ idx_last.op = "flush" /\ idx_last.res = "Ok" =>
               /\ \A id \in Eids : IndexGet(id)' = IndexGet(id)
               /\ \A b \in BlockIds : /\ sec_blk'[b] = sec_blk[b]
                                      /\ Readable(b)' <=> Readable(b)
        /\ \A id \in Eids : idx_buf[id] = Clean => IndexGet(id)' = IndexGet(id)

C24_WitnessLost ==
    /\ idx_last.op = "reopen" /\ idx_last.prev = "put"
    /\ IndexGet("e1") = 0

-----------------------------------------------------------------------------
(* Claims about fnodes and the content store *)

\* the length of the newest version (0 before the first write)
NewestLen(vs) == IF vs = <<>> THEN 0 ELSE vs[Len(vs)].len

VersionsBounded ==
    \A f \in Fnodes :
        fn_tab[f] # NoFnode =>
            /\ Len(fn_tab[f].versions) <= fn_tab[f].limit
            /\ fn_tab[f].curr_len = NewestLen(fn_tab[f].versions)

\* a step that pushed a version onto fnode f: below the limit every version
\* stays, at the limit the oldest one, and only it, leaves
C26_Step ==
    \A f \in Fnodes :
        (fn_last'.f = f /\ fn_last'.op \in {"write", "truncate"}) =>
            LET old == fn_tab[f].versions
                new == fn_tab'[f].versions
            IN  /\ fn_tab'[f].limit = fn_tab[f].limit
                /\ IF Len(old) = fn_tab[f].limit
                   THEN /\ new = Tail(old) \o fn_last'.pushed
                        /\ fn_last'.evicted = <<Head(old)>>
                   ELSE /\ new = old \o fn_last'.pushed
                        /\ fn_last'.evicted = <<>>

\* C26: after every sequence of create, write, truncate and remove, an fnode
\* holds at most version_limit versions and its curr_len is the length of the
\* newest one; a push at the limit evicts exactly the oldest version.
C26_VersionsWithinLimit == []VersionsBounded /\ [][C26_Step]_vars

\* a truncate on an fnode that was at the greatest limit evicted its oldest
\* version, which was longer than the one pushed
C26_Witness ==
    /\ fn_last.op = "truncate"
    /\ fn_last.evicted # <<>>
    /\ fn_tab[fn_last.f].limit = MaxFnLimit
    /\ Len(fn_tab[fn_last.f].versions) = MaxFnLimit
    /\ fn_last.evicted[1].len > fn_tab[fn_last.f].curr_len

\* does chunk list q hold chunk h
Holds(q, h) == \E i \in 1..Len(q) : q[i] = h

\* the versions of a list that hold chunk h
HoldersIn(vs, h) == Cardinality({i \in 1..Len(vs) : Holds(vs[i].chunks, h)})

\* the fnode versions that reference chunk h
VersionRefs(h) ==
    Cardinality({fi \in Fnodes \X (1..MaxFnLimit) :
                    /\ fn_tab[fi[1]] # NoFnode
                    /\ fi[2] <= Len(fn_tab[fi[1]].versions)
                    /\ Holds(fn_tab[fi[1]].versions[fi[2]].chunks, h)})

RefcntExact ==
    \A h \in Hashes :
        /\ ch_map[h].refcnt = VersionRefs(h)
        /\ (ch_map[h] = NoChunk) <=> (VersionRefs(h) = 0)
        /\ \A g \in Hashes :
               (g # h /\ ch_map[g] # NoChunk) => ch_map[g].span # ch_map[h].span

\* what a step does to chunk h: one reference more for the version pushed if
\* it holds h, one less for every version that went away holding h; a chunk
\* that was in the map keeps its span while references remain, and leaves
\* the map when, and only when, none remains
C27_Step ==
    \A h \in Hashes :
        LET inc  == HoldersIn(fn_last'.pushed, h)
            dec  == HoldersIn(fn_last'.evicted, h)
            left == ch_map[h].refcnt + inc - dec
        IN  /\ ch_map'[h].refcnt = left
            /\ (ch_map[h] # NoChunk /\ inc > 0) =>
                   /\ ch_map'[h].span = ch_map[h].span
                   /\ ch_map'[h].refcnt = ch_map[h].refcnt + 1 - dec
            /\ (ch_map[h] # NoChunk /\ left > 0) =>
                   ch_map'[h].span = ch_map[h].span
            /\ (ch_map'[h] = NoChunk) <=> (left = 0)

-----------------------------------------------------------------------------
(* Claims about the directory tree *)

\* both changes of the last rename are visible in tree t: the entry has left
\* the source parent, it is in the destination parent, and what it replaced
\* is gone with its reference
BothVisible(t) ==
    LET pre == tr_op.pre
        old == tr_op.old
    IN  /\ Child(t, tr_op.sd, tr_op.sn) = NoEntry
        /\ Child(t, tr_op.dd, tr_op.dn) = tr_op.src
        /\ t.kind[tr_op.src] = pre.kind[tr_op.src]
        /\ t.content[tr_op.src] = pre.content[tr_op.src]
        /\ old # NoEntry =>
               /\ t.kind[old] = "none"
               /\ \A d \in TreeNodes, n \in Names : Child(t, d, n) # old
               /\ pre.kind[old] = "file" =>
                      t.refs[pre.content[old]] = pre.refs[pre.content[old]] - 1

\* was the destination of the last rename a directory with entries
OntoNonEmptyDir ==
    LET pre == tr_op.pre
    IN  /\ tr_op.old # NoEntry
        /\ pre.kind[tr_op.old] = "dir"
        /\ \E n \in Names : Child(pre, tr_op.old, n) # NoEntry

RenameOk ==
    tr_op.res = "Ok" =>
        /\ tr_op.src # NoEntry
        /\ BothVisible(tr_mem)
        /\ tr_disk = tr_mem
        /\ ~OntoNonEmptyDir

RenameAllOrNothing ==
    tr_op.res \in {"Err", "crash"} =>
        /\ tr_mem = tr_disk
        /\ tr_mem = tr_op.pre \/ BothVisible(tr_mem)

RenameNotEmpty ==
    /\ (tr_op.res \notin {"none", "NotFound"} /\ OntoNonEmptyDir) =>
           tr_op.res = "NotEmpty"
    /\ tr_op.res = "NotEmpty" =>
           /\ OntoNonEmptyDir
           /\ tr_pc = "idle"
           /\ tr_mem = tr_op.pre
           /\ tr_disk = tr_op.pre

C28_WitnessCrashBoth ==
    tr_op.res = "crash" /\ tr_op.at = "committed" /\ tr_mem # tr_op.pre

C28_WitnessCrashNeither ==
    tr_op.res = "crash" /\ tr_op.at = "unlinked" /\ tr_mem = tr_op.pre

\* rename of a file onto a directory that holds an entry
C28_WitnessNotEmpty ==
    /\ tr_op.res = "NotEmpty"
    /\ tr_op.src # NoEntry
    /\ tr_op.pre.kind[tr_op.src] = "file"
    /\ tr_op.sd = Root /\ tr_op.dd = Root

-----------------------------------------------------------------------------
(* Claims about the alignment helpers *)

AlignCalled == al_call.fn # "none"

\* C29: for every power-of-two size, align_ceil and align_ceil_u64 return
\* size for x = 0 and otherwise a multiple of size that is >= x and
\* < x + size + 1; as documented for align_ceil_u64, for x on a size boundary
\* the result is the next boundary x + size; and align_ceil_chunk(x, size) is
\* align_ceil(x, size) / size.
C29_AlignCeilAsDocumented ==
    AlignCalled =>
        /\ al_call.fn \in {"align_ceil", "align_ceil_u64"} =>
               /\ al_x = 0 => al_call.res = al_size
               /\ al_x # 0 =>
                      /\ al_call.res % al_size = 0
                      /\ al_call.res >= al_x
                      /\ al_call.res < al_x + al_size + 1
        /\ (al_call.fn = "align_ceil_u64" /\ al_x % al_size = 0) =>
               al_call.res = al_x + al_size
        /\ al_call.fn = "align_ceil_chunk" =>
               al_call.res = al_call.ceil \div al_size

\* what the helpers do return where their arithmetic does not overflow: size
\* for 0, otherwise the least multiple of size that is >= x, which is x itself
\* for x on a boundary
AlignCeilLeastMultiple ==
    (AlignCalled /\ ~Overflows(al_x, al_size)) =>
        LET ceil == IF al_x = 0 THEN al_size
                    ELSE CHOOSE m \in 0..(2 * Pow2(AlignBits)) :
                             /\ m % al_size = 0
                             /\ m >= al_x
                             /\ m < al_x + al_size
        IN  /\ al_call.ceil = ceil
            /\ al_call.fn \in {"align_ceil", "align_ceil_u64"} =>
                   al_call.res = ceil
            /\ al_call.fn = "align_ceil_chunk" => al_call.res = ceil \div al_size

\* align_ceil_u64 returned x for an x above 0 on a boundary of a size above 1
AlignCeilOnBoundary ==
    /\ al_call.fn = "align_ceil_u64"
    /\ al_x > 0 /\ al_size > 1 /\ al_x % al_size = 0
    /\ al_call.res = al_x

-----------------------------------------------------------------------------
(* Claims about the little-endian codec *)

\* a buffer that holds T: the calls on it do not panic
LeFits == Len(le_call.before) >= SizeOf(le_type)

\* after write(buf, n): byte i of the buffer is (n >> 8 * i) & 0xFF for i
\* below the size of T, every byte beyond is what it was
LeWritten ==
    (le_call.op = "write" /\ LeFits) =>
        /\ le_call.res # Panic
        /\ Len(le_buf) = Len(le_call.before)
        /\ \A i \in 0..(Len(le_buf) - 1) :
               IF i < SizeOf(le_type)
               THEN le_buf[i + 1] =
                        (le_n \div Pow2(ByteBits * i)) % Pow2(ByteBits)
               ELSE le_buf[i + 1] = le_call.before[i + 1]

\* read(buf) on that buffer returns n
LeReadBack == le_call.op = "read" => le_call.res = le_n

\* C30: little-endian round trip. For each of u8, u16, u32, u64 and u128
\* and every value n of the type, write(buf, n) stores (n >> 8 * i) & 0xFF in
\* byte i for i below the type's size, leaves the bytes beyond unchanged, and
\* read(buf) returns n.
C30_LittleEndianRoundTrip == LeWritten /\ LeReadBack

\* a u128 with a lowest byte and a byte 9 above 0 and a highest byte of 0 was
\* written and read back, in a buffer whose byte beyond it is not 0
C30_Witness ==
    /\ le_call.op = "read"
    /\ le_type = "u128"
    /\ le_call.res = le_n
    /\ le_buf[1] # 0 /\ le_buf[10] # 0
    /\ le_buf[16] = 0
    /\ le_buf[17] # 0

-----------------------------------------------------------------------------
(* Claims about positioned I/O *)

RECURSIVE LogBytes(_)
LogBytes(log) == IF log = <<>> THEN 0 ELSE log[1][2] + LogBytes(Tail(log))

\* every transfer begins where the one before it ended, the first at off
Consecutive(log, off) ==
    \A i \in 1..Len(log) : log[i][1] = off + LogBytes(SubSeq(log, 1, i - 1))

PioResults ==
    /\ Consecutive(pio_log, pio.off0)
    /\ pio.done = LogBytes(pio_log)
    /\ pio.off = pio.off0 + pio.done
    /\ pio.res = "Ok" => pio.done = pio.len
    /\ pio.res = "UnexpectedEof" =>
           pio.op = "pread_exact" /\ pio.under = "Zero" /\ pio.done < pio.len
    /\ pio.res = "WriteZero" =>
           pio.op = "pwrite_all" /\ pio.under = "Zero" /\ pio.done < pio.len
    /\ pio.res \in PioErrors => pio.under = pio.res
    /\ pio.res \in {"Ok", "UnexpectedEof", "WriteZero", "none"} \cup PioErrors

\* one round of the loop: it goes round again only after a transfer, which
\* advances, or after Interrupted, which leaves offset and buffer alone; a
\* 0-byte transfer and every other failure end the call at once
PioRound ==
    (pio.pc = "loop" /\ pio' # pio) =>
        /\ pio'.pc = "loop" =>
               \/ /\ pio'.under = "Ok"
                  /\ pio'.done > pio.done
                  /\ pio'.off - pio.off = pio'.done - pio.done
               \/ /\ pio'.under = "Interrupted"
                  /\ pio'.off = pio.off /\ pio'.done = pio.done
                  /\ pio_log' = pio_log
        /\ pio'.under \in PioErrors =>
               pio'.pc = "idle" /\ pio'.res = pio'.under /\ pio_log' = pio_log
        /\ pio'.under = "Zero" =>
               /\ pio'.pc = "idle"
               /\ pio'.res = IF pio.op = "pread_exact"
                             THEN "UnexpectedEof" ELSE "WriteZero"

\* C31: pread_exact and pwrite_all retry only on Interrupted, and then with
\* offset and buffer as they were; every other error is returned at once
\* unchanged; a 0-byte read before the buffer is full gives UnexpectedEof, a
\* 0-byte write WriteZero; Ok is returned only when the whole buffer went
\* over at consecutive offsets from the given one; and with finitely many
\* Interrupted failures the loop terminates.
C31_PositionedIo ==
    /\ []PioResults
    /\ [][PioRound]_vars
    /\ (pio.pc = "loop") ~> (pio.pc = "idle")

\* a call from an offset above 0 returned Ok after three transfers and the
\* greatest number of Interrupted failures
C31_Witness ==
    /\ pio.res = "Ok"
    /\ pio.off0 > 0
    /\ Len(pio_log) = MaxBuf
    /\ pio.intr = MaxIntr

-----------------------------------------------------------------------------
(* Claims about init_env *)

RanOnce ==
    /\ ie_runs <= 1
    /\ Cardinality({t \in Threads : ie_pc[t] = "body"}) <= 1
    /\ once = "new" <=> ie_runs = 0
    /\ \A t \in Threads :
           (ie_pc[t] = "returned" \/ (ie_pc[t] = "out" /\ ie_calls[t] > 0)) =>
               /\ once = "done"
               /\ ie_runs = 1
               /\ \A u \in Threads : ie_pc[u] # "body"

\* C32: init_env may be called any number of times, one after the other or
\* from several threads at once: the initialisation body runs exactly once in
\* the process, and every call returns only after that one run has completed.
C32_InitOnce == RanOnce

\* a second call of one thread returned while another thread, which had
\* waited for the body to end, has returned too
C32_Witness ==
    /\ ie_runs = 1
    /\ \E t, u \in Threads :
           /\ t # u
           /\ ie_calls[t] = MaxInitCalls /\ ie_pc[t] = "returned"
           /\ ie_calls[u] = 1 /\ ie_pc[u] = "returned"
    /\ \E w \in Threads : ie_pc[w] = "waiting"

-----------------------------------------------------------------------------
(* Claims about remove_address_blocks *)

\* the depot block ids of an address in entity order
RECURSIVE EntityBlocks(_)
EntityBlocks(a) ==
    IF a = <<>> THEN <<>>
    ELSE [i \in 1..Head(a).cnt |-> Head(a).begin + i - 1] \o EntityBlocks(Tail(a))

\* the depot block ids at which the first n entity blocks' frames begin: the
\* ids of the entity blocks 0, BLKS_PER_FRAME, 2 * BLKS_PER_FRAME, ...
FrameBegins(a, n) ==
    {EntityBlocks(a)[i] : i \in {j \in 1..n : (j - 1) % BLKS_PER_FRAME = 0}}

\* the blocks of the first n spans of an address
SpansBlocks(a, n) == UNION {SpanBlocks(a[i]) : i \in 1..n}

\* as far as the walk has come, the spans are deleted from the depot and no
\* frame that begins there is cached; when it returns Ok it has come through
\* the whole address, by exactly its block count
WalkedClean ==
    /\ frame_cache \cap FrameBegins(rab.addr, rab.inaddr_idx) = {}
    /\ rab.pc = "span" \/ rab.res = "Err" =>
           rab_blks \cap SpansBlocks(rab.addr, rab.span - 1) = {}
    /\ rab.res = "Ok" =>
        /\ rab.inaddr_idx = Len(EntityBlocks(rab.addr))
        /\ rab_blks \cap AddrBlocks(rab.addr) = {}
        /\ frame_cache \cap
               FrameBegins(rab.addr, Len(EntityBlocks(rab.addr))) = {}

\* a step removes from the frame cache nothing but the entry of a frame of
\* the address, and moves the walk forward by at least one block within the
\* span
WalkAdvances ==
    /\ frame_cache' \subseteq frame_cache
    /\ frame_cache \ frame_cache' \subseteq
           FrameBegins(rab.addr, Len(EntityBlocks(rab.addr)))
    /\ rab.pc = "walk" /\ rab'.pc = "walk" =>
        /\ rab'.inaddr_idx > rab.inaddr_idx
        /\ rab'.inaddr_idx <= rab.end_idx
        /\ rab'.blk_idx - rab.blk_idx = rab'.inaddr_idx - rab.inaddr_idx

\* C37: remove_address_blocks(addr) deletes every span of the address from
\* the depot and, for every frame of the entity (every group of
\* BLKS_PER_FRAME consecutive entity blocks counted across all spans), removes
\* the frame-cache entry keyed by the depot block id at which the frame
\* begins, so that no frame of a removed address stays cached; the walk
\* advances by exactly the total block count of the address and terminates
\* for every address, those whose spans are not multiples of the frame size
\* included.
C37_RemoveAddressBlocks ==
    /\ []WalkedClean
    /\ [][WalkAdvances]_vars
    /\ (rab.pc # "idle") ~> (rab.pc = "idle")

\* the walk returned Ok for an address of a span of one block and a span of
\* three: its first frame lies across the two spans and begins at block 3,
\* its second begins in the middle of the second span at block 1; the cache
\* holds neither key and keeps the keys that begin no frame of the address
C37_Witness ==
    /\ rab.pc = "idle"
    /\ rab.res = "Ok"
    /\ rab.addr = <<[begin |-> 3, cnt |-> 1], [begin |-> 0, cnt |-> 3]>>
    /\ rab.inaddr_idx = 4
    /\ frame_cache = {0, 2}
    /\ rab_blks = {}

-----------------------------------------------------------------------------
(* Specifications *)

StorageInit ==
    /\ StorageStart
    /\ ArmorStart /\ TransStart /\ RepoStart
    /\ OpenerStart /\ OptionsStart /\ IndexStart /\ FileStart /\ SectorStart
    /\ FnodeStart /\ TreeStart /\ AlignStart /\ LeStart /\ PioStart
    /\ EnvStart /\ FramesStart

SpecStorage == StorageInit /\ [][StorageNext]_vars

SpecStorageCalls == StorageInit /\ [][StorageCalls]_vars

ArmorInit ==
    /\ ArmorStart
    /\ StorageStart /\ TransStart /\ RepoStart
    /\ OpenerStart /\ OptionsStart /\ IndexStart /\ FileStart /\ SectorStart
    /\ FnodeStart /\ TreeStart /\ AlignStart /\ LeStart /\ PioStart
    /\ EnvStart /\ FramesStart

SpecArmor == ArmorInit /\ [][ArmorNext]_vars

LoadInit ==
    /\ LoadStart
    /\ StorageStart /\ TransStart /\ RepoStart
    /\ OpenerStart /\ OptionsStart /\ IndexStart /\ FileStart /\ SectorStart
    /\ FnodeStart /\ TreeStart /\ AlignStart /\ LeStart /\ PioStart
    /\ EnvStart /\ FramesStart

SpecLoad == LoadInit /\ [][ArmorLoad]_vars

TransInit ==
    /\ TransStart
    /\ StorageStart /\ ArmorStart /\ RepoStart
    /\ OpenerStart /\ OptionsStart /\ IndexStart /\ FileStart /\ SectorStart
    /\ FnodeStart /\ TreeStart /\ AlignStart /\ LeStart /\ PioStart
    /\ EnvStart /\ FramesStart

SpecTrans == TransInit /\ [][TransNext]_vars

RepoInit ==
    /\ RepoOpened
    /\ StorageStart /\ ArmorStart /\ TransStart
    /\ OpenerStart /\ OptionsStart /\ IndexStart /\ FileStart /\ SectorStart
    /\ FnodeStart /\ TreeStart /\ AlignStart /\ LeStart /\ PioStart
    /\ EnvStart /\ FramesStart

SpecRepo == RepoInit /\ [][RepoNext]_vars

OpenerInit ==
    /\ OpenerStart
    /\ StorageStart /\ ArmorStart /\ TransStart
    /\ RepoStart /\ OptionsStart /\ IndexStart /\ FileStart /\ SectorStart
    /\ FnodeStart /\ TreeStart /\ AlignStart /\ LeStart /\ PioStart
    /\ EnvStart /\ FramesStart

SpecOpener == OpenerInit /\ [][OpenerNext]_vars

\* RepoOpener and OpenOptions side by side, each given every version limit
LimitInit ==
    /\ OpenerStart /\ RepoStart
    /\ StorageStart /\ ArmorStart /\ TransStart
    /\ OptionsStart /\ IndexStart /\ FileStart /\ SectorStart /\ FnodeStart
    /\ TreeStart /\ AlignStart /\ LeStart /\ PioStart /\ EnvStart
    /\ FramesStart

LimitNext ==
    \/ \E b \in BOOLEAN : OpenerCreate(b)
    \/ \E b \in BOOLEAN : OpenerReadOnly(b)
    \/ \E v \in VersionLimits : OpenerVersionLimit(v)
    \/ \E uri \in Uris : OpenerOpen(uri)
    \/ ResultDropped
    \/ \E o \in Args(LimitOptions) : \E p \in Paths : Open(o, p, "Ok")

SpecLimit == LimitInit /\ [][LimitNext]_vars

OptionsInit ==
    /\ OptionsStart
    /\ StorageStart /\ ArmorStart /\ TransStart
    /\ RepoStart /\ OpenerStart /\ IndexStart /\ FileStart /\ SectorStart
    /\ FnodeStart /\ TreeStart /\ AlignStart /\ LeStart /\ PioStart
    /\ EnvStart /\ FramesStart

SpecOptions == OptionsInit /\ [][OptionsNext]_vars

IndexInit ==
    /\ IndexStart
    /\ StorageStart /\ ArmorStart /\ TransStart
    /\ RepoStart /\ OpenerStart /\ OptionsStart /\ FileStart /\ SectorStart
    /\ FnodeStart /\ TreeStart /\ AlignStart /\ LeStart /\ PioStart
    /\ EnvStart /\ FramesStart

SpecIndex == IndexInit /\ [][IndexNext]_vars

FileInit ==
    /\ FileStart
    /\ StorageStart /\ ArmorStart /\ TransStart
    /\ RepoStart /\ OpenerStart /\ OptionsStart /\ IndexStart /\ SectorStart
    /\ FnodeStart /\ TreeStart /\ AlignStart /\ LeStart /\ PioStart
    /\ EnvStart /\ FramesStart

SpecFile == FileInit /\ [][FileNext]_vars

SectorInit ==
    /\ SectorStart
    /\ StorageStart /\ ArmorStart /\ TransStart
    /\ RepoStart /\ OpenerStart /\ OptionsStart /\ IndexStart /\ FileStart
    /\ FnodeStart /\ TreeStart /\ AlignStart /\ LeStart /\ PioStart
    /\ EnvStart /\ FramesStart

SpecSector == SectorInit /\ [][SectorNext]_vars

\* the whole depot: super block, WAL, addresses and blocks of one
\* FileStorage, with a crash that takes all of it down at once
DepotInit ==
    /\ FileStart /\ IndexStart /\ SectorStart
    /\ StorageStart /\ ArmorStart /\ TransStart
    /\ RepoStart /\ OpenerStart /\ OptionsStart /\ FnodeStart /\ TreeStart
    /\ AlignStart /\ LeStart /\ PioStart /\ EnvStart /\ FramesStart

\* the process crashes and the depot is opened again
DepotCrash ==
    /\ FstReopened /\ IdxReopened /\ SecReopened
    /\ UNCHANGED <<storageVars, armorVars, transVars, repoVars, openerVars,
                   optionsVars, fnodeVars, treeVars, alignVars, leVars,
                   pioVars, envVars, framesVars>>

DepotNext ==
    \/ \E v \in WalVals : FstPutSuperBlock(0, v, "Ok")
    \/ \E w \in WalVals : FstPutWal("e1", w, "Ok")
    \/ FstDelWal("e1", "Ok")
    \/ \E a \in Addrs : IdxPutAddress("e1", a)
    \/ IdxDelAddress("e1")
    \/ \E v \in BlkVals : SecPutBlocks([begin |-> 0, cnt |-> 1], v)
    \/ SecDelBlocks([begin |-> 0, cnt |-> 1])
    \/ IdxFlush
    \/ DepotCrash

SpecDepot == DepotInit /\ [][DepotNext]_vars

FnodeInit ==
    /\ FnodeStart /\ StorageStart /\ ArmorStart /\ TransStart /\ RepoStart
    /\ OpenerStart /\ OptionsStart /\ IndexStart /\ FileStart /\ SectorStart
    /\ TreeStart /\ AlignStart /\ LeStart /\ PioStart /\ EnvStart
    /\ FramesStart

SpecFnode == FnodeInit /\ [][FnodeNext]_vars

TreeInit ==
    /\ TreeStart /\ StorageStart /\ ArmorStart /\ TransStart /\ RepoStart
    /\ OpenerStart /\ OptionsStart /\ IndexStart /\ FileStart /\ SectorStart
    /\ FnodeStart /\ AlignStart /\ LeStart /\ PioStart /\ EnvStart
    /\ FramesStart

SpecTree == TreeInit /\ [][TreeNext]_vars

\* every integer and every power of two of the width, then the helpers
AlignInit ==
    /\ al_x \in Words /\ al_size \in PowersOfTwo /\ al_call = NoAlign
    /\ StorageStart /\ ArmorStart /\ TransStart /\ RepoStart /\ OpenerStart
    /\ OptionsStart /\ IndexStart /\ FileStart /\ SectorStart /\ FnodeStart
    /\ TreeStart /\ LeStart /\ PioStart /\ EnvStart /\ FramesStart

SpecAlign == AlignInit /\ [][AlignNext]_vars

\* every type, every value of it and a buffer, then write and read
LeInit ==
    /\ le_type \in LeTypes
    /\ le_n \in ValuesOf(le_type)
    /\ le_buf \in BuffersFor(le_type)
    /\ le_call = LeCall("new", le_buf, 0)
    /\ StorageStart /\ ArmorStart /\ TransStart /\ RepoStart /\ OpenerStart
    /\ OptionsStart /\ IndexStart /\ FileStart /\ SectorStart /\ FnodeStart
    /\ TreeStart /\ AlignStart /\ PioStart /\ EnvStart /\ FramesStart

SpecLe == LeInit /\ [][LeNext]_vars

PioInit ==
    /\ PioStart /\ StorageStart /\ ArmorStart /\ TransStart /\ RepoStart
    /\ OpenerStart /\ OptionsStart /\ IndexStart /\ FileStart /\ SectorStart
    /\ FnodeStart /\ TreeStart /\ AlignStart /\ LeStart /\ EnvStart
    /\ FramesStart

\* a call that is inside its loop goes on: the thread is not stopped for ever
SpecPio == PioInit /\ [][PioNext]_vars /\ WF_vars(PioLoop)

EnvInit ==
    /\ EnvStart /\ StorageStart /\ ArmorStart /\ TransStart /\ RepoStart
    /\ OpenerStart /\ OptionsStart /\ IndexStart /\ FileStart /\ SectorStart
    /\ FnodeStart /\ TreeStart /\ AlignStart /\ LeStart /\ PioStart
    /\ FramesStart

SpecEnv == EnvInit /\ [][EnvNext]_vars

FramesInit ==
    /\ rab = NoWalk
    /\ rab_blks = FrameBlks
    /\ frame_cache \in SUBSET FrameBlks
    /\ StorageStart /\ ArmorStart /\ TransStart /\ RepoStart /\ OpenerStart
    /\ OptionsStart /\ IndexStart /\ FileStart /\ SectorStart /\ FnodeStart
    /\ TreeStart /\ AlignStart /\ LeStart /\ PioStart /\ EnvStart

SpecFrames == FramesInit /\ [][FramesNext]_vars /\ WF_vars(RabLoop)

=========================================================================
